---- MODULE Spec2Model ----
(***************************************************************************)
(* A model of the brainy statechart engine (machine.go, queue.go,          *)
(* send_action): construction and validation of a StateNode tree, target   *)
(* resolution, and the event loop of Machine.Send.                          *)
(*                                                                         *)
(* Strings are sequences of one-character strings, so that                 *)
(* strings.HasPrefix and the "." joins of the source keep their meaning.   *)
(* A state node is identified by its path of keys from the root (the Go    *)
(* pointer identity); its id string is computed as the source computes it. *)
(***************************************************************************)
EXTENDS Naturals, Integers, Sequences, FiniteSets, TLC

\* ------------------------------------------------------------------ bounds
\* Largest number of events one Send call may process (caps self-queuing loops).
MaxSteps == 3
\* Largest length of the events queue.
MaxQueue == 3

\* ------------------------------------------------------------------ strings
Dot == <<".">>

\* machine.go:724-726, the id of the root when Machine.ID is blank
RootPlaceholder == <<"(", "m", "a", "c", "h", "i", "n", "e", ")">>

\* strings.HasPrefix(s, prefix)
HasPrefix(s, prefix) ==
    /\ Len(prefix) <= Len(s)
    /\ \A i \in 1..Len(prefix) : s[i] = prefix[i]

\* joinStatesIDs, machine.go:350-361
RECURSIVE joinStatesIDs(_)
joinStatesIDs(statesIDs) ==
    IF Len(statesIDs) = 0 THEN <<>>
    ELSE IF Len(statesIDs) = 1 THEN statesIDs[1]
    ELSE joinStatesIDs(SubSeq(statesIDs, 1, Len(statesIDs) - 1))
             \o Dot \o statesIDs[Len(statesIDs)]

\* StateType.String and joinStateTypes, machine.go:365-373
joinStateTypes(statesIDs) == joinStatesIDs(statesIDs)

\* removeDuplicatesFromStateTypeSlice, machine.go:929-945
RECURSIVE removeDuplicatesFromStateTypeSlice(_)
removeDuplicatesFromStateTypeSlice(s) ==
    IF Len(s) = 0 THEN <<>>
    ELSE LET front == removeDuplicatesFromStateTypeSlice(SubSeq(s, 1, Len(s) - 1))
             last  == s[Len(s)]
         IN IF \E i \in 1..Len(front) : front[i] = last THEN front
            ELSE Append(front, last)

\* ------------------------------------------------------------------ names
\* NoneState, machine.go:173
NoneState == <<>>

nOn  == <<"o", "n">>
nOff == <<"o", "f", "f">>
nA   == <<"a">>
nB   == <<"b">>
nC   == <<"c">>
nX   == <<"x">>
nY   == <<"y">>
nZ   == <<"z">>
nD   == <<"d">>
nE   == <<"e">>
nAB  == <<"a", "b">>
nADotB == <<"a", ".", "b">>

\* ------------------------------------------------------------------ targets
\* A nil Transition.Target
NilTarget == [kind |-> "nil", name |-> <<>>, entries |-> {}]
\* A StateType used as a Targeter
State(n) == [kind |-> "state", name |-> n, entries |-> {}]
\* A CompoundTarget: a map from StateType to Targeter, as a set of <<key, value>>
Compound(es) == [kind |-> "compound", name |-> <<>>, entries |-> es]

\* Transition.isTargetBlank, machine.go:338-340
isTargetBlank(t) ==
    \/ t.Target.kind = "nil"
    \/ (t.Target.kind = "state" /\ t.Target.name = NoneState)

\* StateType.target and CompoundTarget.target, machine.go:160-164, 185-202.
\* A map is ranged over in an unspecified order and only the first entry is
\* used: the result is the set of slices the call may return.
RECURSIVE target(_)
target(t) ==
    IF t.kind = "state" THEN { <<t.name>> }
    ELSE IF t.entries = {} THEN { <<>> }
    ELSE UNION { { removeDuplicatesFromStateTypeSlice(<<e[1]>> \o rest) :
                       rest \in target(e[2]) } : e \in t.entries }

\* StateType.String and CompoundTarget.String, machine.go:166-168, 204-213
String(t) ==
    IF t.kind = "state" THEN { t.name }
    ELSE { joinStatesIDs(ts) : ts \in target(t) }

\* ------------------------------------------------------------------ errors
\* The nil *StateNode
NilNode == << <<"<nil>">> >>
\* The outcome of a method call on a nil *StateNode that reads its fields
\* (a nil pointer dereference, which panics)
PanicNode == << <<"<panic>">> >>
\* getTarget returning (nil, false)
NotFound == << <<"<not found>">> >>

\* An error value; kind "nil" is the nil error.  type and id are the fields of
\* ErrAction, cause the error an Action returned, event the Event of
\* ErrNoHandlerToHandleEvent, from and target the fields of
\* ErrInvalidTransitionNotImplementedWithDetails, state the field of
\* ErrInvalidInitialState.
MkErr(kind, event, type, index, cause, from, tgt, state) ==
    [kind |-> kind, event |-> event, type |-> type, id |-> index, cause |-> cause,
     from |-> from, target |-> tgt, state |-> state]

NoErr == MkErr("nil", "", "", 0, "", NilNode, NilTarget, <<>>)
\* machine.go:29
ErrBlankInitialStateForCompoundState ==
    MkErr("ErrBlankInitialStateForCompoundState", "", "", 0, "", NilNode, NilTarget, <<>>)
\* machine.go:37
ErrInvalidTransitionNotImplemented ==
    MkErr("ErrInvalidTransitionNotImplemented", "", "", 0, "", NilNode, NilTarget, <<>>)
\* machine.go:41
ErrNoTransitionCouldBeRun ==
    MkErr("ErrNoTransitionCouldBeRun", "", "", 0, "", NilNode, NilTarget, <<>>)
\* machine.go:47-49
ErrNoHandlerToHandleEvent(event) ==
    MkErr("ErrNoHandlerToHandleEvent", event, "", 0, "", NilNode, NilTarget, <<>>)
\* machine.go:69-72
ErrInvalidTransitionNotImplementedWithDetails(from, tgt) ==
    MkErr("ErrInvalidTransitionNotImplementedWithDetails", "", "", 0, "", from, tgt, <<>>)
\* machine.go:82-84
ErrInvalidInitialState(state) ==
    MkErr("ErrInvalidInitialState", "", "", 0, "", NilNode, NilTarget, state)
\* machine.go:135-139
ErrAction(type, index, cause) ==
    MkErr("ErrAction", "", type, index, cause, NilNode, NilTarget, <<>>)
\* errors.New(text), machine.go:809, 814
errorsNew(text) == MkErr("errorString", "", "", 0, text, NilNode, NilTarget, <<>>)
\* The error a user Action returns
UserErr(name) == MkErr("user", "", "", 0, name, NilNode, NilTarget, <<>>)
\* A run-time panic during construction, as an outcome
PanicErr == MkErr("panic", "", "", 0, "", NilNode, NilTarget, <<>>)
\* A call of lock.Lock() that never returns, as an outcome
BlockedErr == MkErr("blocked", "", "", 0, "", NilNode, NilTarget, <<>>)

\* machine.go:128-130
onEntryActionType == "onEntry"
transitionActionActionType == "transitionAction"
onExitActionType == "onExit"

\* The Unwrap methods, machine.go:78-80, 141-143; nil when there is none
Unwrap(err) ==
    IF err.kind = "ErrAction" THEN UserErr(err.cause)
    ELSE IF err.kind = "ErrInvalidTransitionNotImplementedWithDetails"
         THEN ErrInvalidTransitionNotImplemented
    ELSE NoErr

\* errors.Is(err, tgt): the chain of err holds an error equal to tgt
\* (ErrNoHandlerToHandleEvent.Is, machine.go:57-64, compares the events).
ErrorsIs(err, tgt) ==
    \/ err = tgt
    \/ (Unwrap(err) # NoErr /\ Unwrap(err) = tgt)

\* ------------------------------------------------------------------ configuration
\* An Actioner: ActionFn(fn) where fn returns an error or nil, or Send(event)
ActionFn(name, fails) ==
    [kind |-> "actionFn", name |-> name, fails |-> fails, SourceEvent |-> ""]
\* ActionFn(fn) where fn calls Send, Current or Previous on its own machine
ActionFnCalling(method) ==
    [kind |-> "actionFnCalling", name |-> method, fails |-> FALSE, SourceEvent |-> ""]
\* send_action: Send(event)
SendAction(event) ==
    [kind |-> "sendActionEvent", name |-> "", fails |-> FALSE, SourceEvent |-> event]

\* A Transition, machine.go:332-336; Cond is "nil", "true" or "false" (what the
\* guard function returns)
Transition(cond, tgt, actions) == [Cond |-> cond, Target |-> tgt, Actions |-> actions]

\* The values of the Events map, one per Transitioner implementation
OnState(n)        == [kind |-> "StateType", target |-> State(n), list |-> <<>>]
OnCompound(es)    == [kind |-> "CompoundTarget", target |-> Compound(es), list |-> <<>>]
OnTransition(t)   == [kind |-> "Transition", target |-> NilTarget, list |-> <<t>>]
OnTransitions(ts) == [kind |-> "Transitions", target |-> NilTarget, list |-> ts]

\* The transitions methods, machine.go:152-158, 177-183, 311-313, 342-344
transitions(h) ==
    IF h.kind \in {"StateType", "CompoundTarget"}
    THEN << Transition("nil", h.target, <<>>) >>
    ELSE h.list

\* A StateNode as the caller declares it, machine.go:382-399; its States are
\* the entries of the configuration one key below its path.
StateNode(initial, onEntry, onExit, on) ==
    [Initial |-> initial, OnEntry |-> onEntry, OnExit |-> onExit, On |-> on]

NoEvents == [e \in {} |-> OnState(NoneState)]
Leaf == StateNode(NoneState, <<>>, <<>>, NoEvents)

\* The root state node (Machine.StateNode)
Root == <<>>

parentStateNode(s) == SubSeq(s, 1, Len(s) - 1)

\* StateNode.States as a set of nodes
States(cfg, s) ==
    { c \in DOMAIN cfg : Len(c) = Len(s) + 1 /\ SubSeq(c, 1, Len(s)) = s }

\* machine.go:440-446
isAtomic(cfg, s) == States(cfg, s) = {}
isCompound(cfg, s) == ~isAtomic(cfg, s)

\* Machine.setStateNodesIDs and StateNode.setChildrenStateNodesIDs,
\* machine.go:428-438, 722-733: the id of a node
RECURSIVE id(_)
id(s) ==
    IF s = Root THEN RootPlaceholder
    ELSE joinStatesIDs(<< id(parentStateNode(s)), s[Len(s)] >>)

\* StateNode.Value, machine.go:401-403
Value(s) == id(s)

\* StateNode.Matches, were it to compare the whole id with the selectors
MatchesWholeID(s, stateSelectors) ==
    id(s) = joinStateTypes(<<RootPlaceholder>> \o stateSelectors)

\* StateNode.Matches, machine.go:417-426
Matches(s, stateSelectors) ==
    HasPrefix(id(s), joinStateTypes(<<RootPlaceholder>> \o stateSelectors))

\* StateNode.resolveMostNestedInitialStateNode, machine.go:448-455
RECURSIVE resolveMostNestedInitialStateNode(_, _)
resolveMostNestedInitialStateNode(cfg, s) ==
    IF s \notin DOMAIN cfg THEN PanicNode
    ELSE IF ~isCompound(cfg, s) THEN s
    ELSE resolveMostNestedInitialStateNode(cfg, Append(s, cfg[s].Initial))

\* StateNode.getTarget, machine.go:457-476.  stamped is the set of nodes whose
\* parentStateNode has been set.  The children are ranged over in an
\* unspecified order: the result is the set of values the call may return.
RECURSIVE getTarget(_, _, _, _)
getTarget(cfg, s, t, stamped) ==
    UNION { LET baseStateNode == IF s \in stamped THEN id(parentStateNode(s)) ELSE id(s)
                expectedIDBeginning == joinStatesIDs(<<baseStateNode, targetID>>)
                visit(c) == IF HasPrefix(id(c), expectedIDBeginning)
                            THEN { resolveMostNestedInitialStateNode(cfg, c) }
                            ELSE getTarget(cfg, c, t, stamped)
                kids == States(cfg, s)
            IN  { r \in UNION { visit(c) : c \in kids } : r # NotFound }
                \cup (IF \A c \in kids : NotFound \in visit(c) THEN {NotFound} ELSE {})
          : targetID \in String(t) }

\* Machine.resolveStateNodeToEnter, machine.go:803-821: the set of results
Resolved(node, err) == [node |-> node, err |-> err]

resolveStateNodeToEnter(cfg, stateNodeWithHandler, transitionToExecute, stamped) ==
    IF isTargetBlank(transitionToExecute)
    THEN { Resolved(stateNodeWithHandler, NoErr) }
    ELSE IF stateNodeWithHandler \notin stamped
    THEN { Resolved(NilNode, errorsNew("parent state node is nil")) }
    ELSE { IF r = NotFound THEN Resolved(NilNode, errorsNew("could not resolve target"))
           ELSE Resolved(r, NoErr)
         : r \in getTarget(cfg, parentStateNode(stateNodeWithHandler),
                           transitionToExecute.Target, stamped) }

\* ------------------------------------------------------------------ validation
\* The result of StateNode.validate: the error and the nodes stamped so far
Validated(err, stamped) == [err |-> err, stamped |-> stamped]

\* machine.go:652-665, the transitions of one handler from index i on: the set
\* of errors the loop may stop with (NoErr when it completes)
RECURSIVE validateTransitions(_, _, _, _, _)
validateTransitions(cfg, stateNode, ts, i, stamped) ==
    IF i > Len(ts) THEN { NoErr }
    ELSE IF isTargetBlank(ts[i])
    THEN validateTransitions(cfg, stateNode, ts, i + 1, stamped)
    ELSE UNION { IF r.node = PanicNode THEN { PanicErr }
                 ELSE IF r.err # NoErr
                 THEN { ErrInvalidTransitionNotImplementedWithDetails(stateNode, ts[i].Target) }
                 ELSE validateTransitions(cfg, stateNode, ts, i + 1, stamped)
               : r \in resolveStateNodeToEnter(cfg, stateNode, ts[i], stamped) }

\* machine.go:644-666, the handlers of one child, ranged over in an
\* unspecified order
validateHandlers(cfg, stateNode, stamped) ==
    LET handlers == cfg[stateNode].On
        one(e) == validateTransitions(cfg, stateNode, transitions(handlers[e]), 1, stamped)
    IN  { h \in UNION { one(e) : e \in DOMAIN handlers } : h # NoErr }
        \cup (IF \A e \in DOMAIN handlers : NoErr \in one(e) THEN { NoErr } ELSE {})

\* StateNode.validate, machine.go:618-670; rest is the set of children the loop
\* of line 633 has not visited yet
RECURSIVE validate(_, _, _)
RECURSIVE validateStates(_, _, _, _)
validate(cfg, s, stamped) ==
    IF isAtomic(cfg, s) THEN { Validated(NoErr, stamped) }
    ELSE IF cfg[s].Initial = NoneState
    THEN { Validated(ErrBlankInitialStateForCompoundState, stamped) }
    ELSE IF Append(s, cfg[s].Initial) \notin DOMAIN cfg
    THEN { Validated(ErrInvalidInitialState(cfg[s].Initial), stamped) }
    ELSE validateStates(cfg, s, States(cfg, s), stamped)

validateStates(cfg, s, rest, stamped) ==
    IF rest = {} THEN { Validated(NoErr, stamped) }
    ELSE UNION { LET stamped1 == stamped \cup { stateNode }
                     children == IF isCompound(cfg, stateNode)
                                 THEN validate(cfg, stateNode, stamped1)
                                 ELSE { Validated(NoErr, stamped1) }
                 IN UNION { IF o.err # NoErr THEN { o }
                            ELSE UNION { IF h # NoErr THEN { Validated(h, o.stamped) }
                                         ELSE validateStates(cfg, s, rest \ { stateNode }, o.stamped)
                                       : h \in validateHandlers(cfg, stateNode, o.stamped) }
                          : o \in children }
               : stateNode \in rest }

\* Machine.validate, machine.go:736-742: the errors it may return
MachineValidate(cfg) == { o.err : o \in validate(cfg, Root, {}) }

\* Every node but the root has its parentStateNode set once validate succeeded
AllStamped(cfg) == DOMAIN cfg \ { Root }

\* ------------------------------------------------------------------ events queue
\* eventsQueue.Add, queue.go:13-15
Add(q, event) == Append(q, event)

\* eventsQueue.Poll, were it to take the event added last
PollNewest(q) ==
    IF Len(q) = 0 THEN [event |-> "", ok |-> FALSE, events |-> q]
    ELSE IF Len(q) = 1 THEN [event |-> q[1], ok |-> TRUE, events |-> <<>>]
    ELSE [event |-> q[Len(q)], ok |-> TRUE, events |-> SubSeq(q, 1, Len(q) - 1)]

\* eventsQueue.Poll, queue.go:17-32: the event, ok and the queue left
Poll(q) ==
    IF Len(q) = 0 THEN [event |-> "", ok |-> FALSE, events |-> q]
    ELSE IF Len(q) = 1 THEN [event |-> q[1], ok |-> TRUE, events |-> <<>>]
    ELSE [event |-> q[1], ok |-> TRUE, events |-> SubSeq(q, 2, Len(q))]

\* ------------------------------------------------------------------ ancestors
\* StateNode.getProperAncestors, machine.go:493-504 (nearest first), once every
\* parentStateNode is set
RECURSIVE getProperAncestors(_)
getProperAncestors(s) ==
    IF s = Root THEN <<>>
    ELSE <<parentStateNode(s)>> \o getProperAncestors(parentStateNode(s))

\* StateNode.getCompoundAncestors, machine.go:506-517
getCompoundAncestors(cfg, s) ==
    SelectSeq(getProperAncestors(s), LAMBDA a : isCompound(cfg, a))

\* StateNode.isDescendantOf, machine.go:519-531
isDescendantOf(s, ancestor) ==
    \E i \in 1..Len(getProperAncestors(s)) : getProperAncestors(s)[i] = ancestor

\* allStateNodesAreAncestorDescendant, machine.go:533-542
allStateNodesAreAncestorDescendant(stateNodes, ancestor) ==
    \A i \in 1..Len(stateNodes) : isDescendantOf(stateNodes[i], ancestor)

\* findLeastCommonCompoundAncestor, were it to return the outermost compound
\* ancestor the state nodes share
findLeastCommonCompoundAncestorOutermost(cfg, stateNodes) ==
    IF Len(stateNodes) < 2 THEN NilNode
    ELSE LET referenceStateNodeAncestors == getCompoundAncestors(cfg, stateNodes[1])
             stateNodesToCompare == SubSeq(stateNodes, 2, Len(stateNodes))
             hits == { i \in 1..Len(referenceStateNodeAncestors) :
                         allStateNodesAreAncestorDescendant(stateNodesToCompare,
                                                            referenceStateNodeAncestors[i]) }
         IN IF hits = {} THEN NilNode
            ELSE referenceStateNodeAncestors[CHOOSE i \in hits : \A j \in hits : j <= i]

\* findLeastCommonCompoundAncestor, were it to take a transition from a node to
\* itself as one that leaves no node
findLeastCommonCompoundAncestorSelfIsInternal(cfg, stateNodes) ==
    IF Len(stateNodes) < 2 THEN NilNode
    ELSE IF stateNodes[1] = stateNodes[2] THEN stateNodes[1]
    ELSE LET referenceStateNodeAncestors == getCompoundAncestors(cfg, stateNodes[1])
             stateNodesToCompare == SubSeq(stateNodes, 2, Len(stateNodes))
             hits == { i \in 1..Len(referenceStateNodeAncestors) :
                         allStateNodesAreAncestorDescendant(stateNodesToCompare,
                                                            referenceStateNodeAncestors[i]) }
         IN IF hits = {} THEN NilNode
            ELSE referenceStateNodeAncestors[CHOOSE i \in hits : \A j \in hits : i <= j]

\* findLeastCommonCompoundAncestor, machine.go:544-561
findLeastCommonCompoundAncestor(cfg, stateNodes) ==
    IF Len(stateNodes) < 2 THEN NilNode
    ELSE LET referenceStateNodeAncestors == getCompoundAncestors(cfg, stateNodes[1])
             stateNodesToCompare == SubSeq(stateNodes, 2, Len(stateNodes))
             hits == { i \in 1..Len(referenceStateNodeAncestors) :
                         allStateNodesAreAncestorDescendant(stateNodesToCompare,
                                                            referenceStateNodeAncestors[i]) }
         IN IF hits = {} THEN NilNode
            ELSE referenceStateNodeAncestors[CHOOSE i \in hits : \A j \in hits : i <= j]

\* ------------------------------------------------------------------ actions
\* One call of a user function or one Send action, as the trace records it:
\* phase is "cond", "onExit", "transitionAction" or "onEntry", node the node
\* that declares it, index its place in the list that declares it, result the
\* name of a function, "send" for a Send action, the value of a guard, event
\* and context the arguments it is given (context: the node whose Context it is).
Ran(step, phase, node, index, result, event, context) ==
    [step |-> step, phase |-> phase, node |-> node, index |-> index,
     result |-> result, event |-> event, context |-> context]

\* machine.StateNode.Context, the argument of every call of a guard and of
\* executeActioner, executeOnExitActions and executeOnEntryActions
\* (machine.go:756, 792, 827, 834, 845): the Context of the root
machineStateNodeContext == Root

\* An action to run: the Actioner, the node and index that declare it
Item(action, node, index) == [action |-> action, node |-> node, index |-> index]

ItemsOf(actions, node) == [i \in 1..Len(actions) |-> Item(actions[i], node, i - 1)]

Executed(err, events, trace) == [err |-> err, events |-> events, trace |-> trace]

\* executeActioner, machine.go:478-491, applied to items[i..] in turn; the
\* loops of machine.go:583-591, 601-609, 833-841 stop at the first error, which
\* they wrap in an ErrAction with the loop index.  ids[i] is that index.
\* A function that calls a method of its own machine is run by the thread that
\* holds machine.lock for the Send call in progress (locking is enabled in
\* every initial state): its lock.Lock() never returns.
\*
\* executeActioners, were machine.lock re-entrant: the function gets the lock
\* again and returns
RECURSIVE executeActionersReentrantLock(_, _, _, _, _, _, _, _)
executeActionersReentrantLock(items, ids, i, type, event, step, events, trace) ==
    IF i > Len(items) THEN Executed(NoErr, events, trace)
    ELSE LET action == items[i].action
             ran(result) == Append(trace, Ran(step, type, items[i].node, items[i].index,
                                             result, event, machineStateNodeContext))
         IN IF action.kind \in {"actionFn", "actionFnCalling"}
            THEN IF action.fails
                 THEN Executed(ErrAction(type, ids[i], action.name), events, ran(action.name))
                 ELSE executeActionersReentrantLock(items, ids, i + 1, type, event, step,
                                                    events, ran(action.name))
            ELSE executeActionersReentrantLock(items, ids, i + 1, type, event, step,
                                               Add(events, action.SourceEvent), ran("send"))

RECURSIVE executeActioners(_, _, _, _, _, _, _, _)
executeActioners(items, ids, i, type, event, step, events, trace) ==
    IF i > Len(items) THEN Executed(NoErr, events, trace)
    ELSE LET action == items[i].action
             ran(result) == Append(trace, Ran(step, type, items[i].node, items[i].index,
                                             result, event, machineStateNodeContext))
         IN IF action.kind = "actionFnCalling"
            THEN Executed(BlockedErr, events, ran(action.name))
            ELSE IF action.kind = "actionFn"
            THEN IF action.fails
                 THEN Executed(ErrAction(type, ids[i], action.name), events, ran(action.name))
                 ELSE executeActioners(items, ids, i + 1, type, event, step, events,
                                       ran(action.name))
            ELSE executeActioners(items, ids, i + 1, type, event, step,
                                  Add(events, action.SourceEvent), ran("send"))

Reverse(seq) == [i \in 1..Len(seq) |-> seq[Len(seq) - i + 1]]

\* machine.go:566-574, the actions gathered from s up to the ancestor excluded
RECURSIVE entryActionsToCall(_, _, _)
entryActionsToCall(cfg, s, leastCommonCompoundAncestor) ==
    IF s = leastCommonCompoundAncestor \/ s = NilNode THEN <<>>
    ELSE ItemsOf(cfg[s].OnEntry, s)
         \o entryActionsToCall(cfg, IF s = Root THEN NilNode ELSE parentStateNode(s),
                               leastCommonCompoundAncestor)

\* StateNode.executeOnEntryActions, were it to run the actions in the order it
\* gathers them
executeOnEntryActionsAsGathered(cfg, s, event, leastCommonCompoundAncestor, step, events, trace) ==
    LET actionsToCall == entryActionsToCall(cfg, s, leastCommonCompoundAncestor)
    IN executeActioners(actionsToCall, [i \in 1..Len(actionsToCall) |-> i - 1],
                        1, onEntryActionType, event, step, events, trace)

\* StateNode.executeOnEntryActions, machine.go:563-594
executeOnEntryActions(cfg, s, event, leastCommonCompoundAncestor, step, events, trace) ==
    LET actionsToCallInReverseOrder ==
            Reverse(entryActionsToCall(cfg, s, leastCommonCompoundAncestor))
    IN executeActioners(actionsToCallInReverseOrder,
                        [i \in 1..Len(actionsToCallInReverseOrder) |-> i - 1],
                        1, onEntryActionType, event, step, events, trace)

\* machine.go:597-613, the exit actions from s up to the ancestor excluded
RECURSIVE exitActionsToCall(_, _, _)
exitActionsToCall(cfg, s, leastCommonCompoundAncestor) ==
    IF s = leastCommonCompoundAncestor \/ s = NilNode THEN <<>>
    ELSE ItemsOf(cfg[s].OnExit, s)
         \o exitActionsToCall(cfg, IF s = Root THEN NilNode ELSE parentStateNode(s),
                              leastCommonCompoundAncestor)

\* StateNode.executeOnExitActions, machine.go:596-616
executeOnExitActions(cfg, s, event, leastCommonCompoundAncestor, step, events, trace) ==
    LET items == exitActionsToCall(cfg, s, leastCommonCompoundAncestor)
    IN executeActioners(items, [i \in 1..Len(items) |-> items[i].index],
                        1, onExitActionType, event, step, events, trace)

\* ------------------------------------------------------------------ one micro-step
\* InitialTransitionEventType, machine.go:228
InitialTransitionEventType == "_INITIAL_TRANSITION"

\* resolveStateNodeWithHandler, were it to pass over a node whose handler has
\* no transition that can run
RECURSIVE resolveStateNodeWithHandlerThatCanRun(_, _, _)
resolveStateNodeWithHandlerThatCanRun(cfg, stateNode, eventType) ==
    IF stateNode = NilNode THEN NilNode
    ELSE IF /\ eventType \in DOMAIN cfg[stateNode].On
            /\ \E i \in 1..Len(transitions(cfg[stateNode].On[eventType])) :
                   transitions(cfg[stateNode].On[eventType])[i].Cond # "false"
    THEN stateNode
    ELSE resolveStateNodeWithHandlerThatCanRun(cfg,
             IF stateNode = Root THEN NilNode ELSE parentStateNode(stateNode), eventType)

\* resolveStateNodeWithHandler, were it to prefer the handler nearest to the root
RECURSIVE resolveStateNodeWithHandlerOutermost(_, _, _)
resolveStateNodeWithHandlerOutermost(cfg, stateNode, eventType) ==
    IF stateNode = NilNode THEN NilNode
    ELSE LET above == resolveStateNodeWithHandlerOutermost(cfg,
                          IF stateNode = Root THEN NilNode ELSE parentStateNode(stateNode),
                          eventType)
         IN IF above # NilNode THEN above
            ELSE IF eventType \in DOMAIN cfg[stateNode].On THEN stateNode
            ELSE NilNode

\* Machine.resolveStateNodeWithHandler, machine.go:853-873
RECURSIVE resolveStateNodeWithHandler(_, _, _)
resolveStateNodeWithHandler(cfg, stateNode, eventType) ==
    IF stateNode = NilNode THEN NilNode
    ELSE IF eventType \in DOMAIN cfg[stateNode].On THEN stateNode
    ELSE resolveStateNodeWithHandler(cfg,
             IF stateNode = Root THEN NilNode ELSE parentStateNode(stateNode), eventType)

\* Machine.selectTransition, machine.go:788-801, from index i on: whether a
\* transition was selected, its index, and the guards called, in order
Selected(ok, index, conds) == [ok |-> ok, index |-> index, conds |-> conds]

\* selectTransition, were it to keep looking after a guard passed and select
\* the last transition that can run
RECURSIVE selectTransitionKeepsLooking(_, _, _)
selectTransitionKeepsLooking(ts, i, conds) ==
    IF i > Len(ts) THEN Selected(FALSE, 0, conds)
    ELSE LET called == IF ts[i].Cond # "nil" THEN Append(conds, i) ELSE conds
             shouldCommitTransition == IF ts[i].Cond # "nil" THEN ts[i].Cond = "true" ELSE TRUE
             later == selectTransitionKeepsLooking(ts, i + 1, called)
         IN IF shouldCommitTransition /\ ~later.ok THEN Selected(TRUE, i, later.conds)
            ELSE later

RECURSIVE selectTransition(_, _, _)
selectTransition(ts, i, conds) ==
    IF i > Len(ts) THEN Selected(FALSE, 0, conds)
    ELSE LET called == IF ts[i].Cond # "nil" THEN Append(conds, i) ELSE conds
             shouldCommitTransition == IF ts[i].Cond # "nil" THEN ts[i].Cond = "true" ELSE TRUE
         IN IF shouldCommitTransition THEN Selected(TRUE, i, called)
            ELSE selectTransition(ts, i + 1, called)

\* executeMicrotask, were the transition's actions to run before the OnExit
\* actions
executeMicrotaskActionsFirst(cfg, cur, toEnter, transitionToExecute, event, step, events, tr) ==
    LET leastCommonCompoundAncestor == findLeastCommonCompoundAncestor(cfg, <<cur, toEnter>>)
        acted == executeActioners(ItemsOf(transitionToExecute.Actions, NilNode),
                                  [i \in 1..Len(transitionToExecute.Actions) |-> i - 1],
                                  1, transitionActionActionType, event, step, events, tr)
        exited == IF ~isTargetBlank(transitionToExecute)
                  THEN executeOnExitActions(cfg, cur, event, leastCommonCompoundAncestor,
                                            step, acted.events, acted.trace)
                  ELSE acted
    IN IF acted.err # NoErr THEN acted
       ELSE IF exited.err # NoErr THEN exited
       ELSE IF ~isTargetBlank(transitionToExecute)
       THEN executeOnEntryActions(cfg, toEnter, event, leastCommonCompoundAncestor,
                                  step, exited.events, exited.trace)
       ELSE exited

\* executeMicrotask, were it to exit and enter whether the target is blank or not
executeMicrotaskAlwaysExits(cfg, cur, toEnter, transitionToExecute, event, step, events, tr) ==
    LET leastCommonCompoundAncestor == findLeastCommonCompoundAncestor(cfg, <<cur, toEnter>>)
        exited == executeOnExitActions(cfg, cur, event, leastCommonCompoundAncestor,
                                       step, events, tr)
        acted == executeActioners(ItemsOf(transitionToExecute.Actions, NilNode),
                                  [i \in 1..Len(transitionToExecute.Actions) |-> i - 1],
                                  1, transitionActionActionType, event, step,
                                  exited.events, exited.trace)
    IN IF exited.err # NoErr THEN exited
       ELSE IF acted.err # NoErr THEN acted
       ELSE executeOnEntryActions(cfg, toEnter, event, leastCommonCompoundAncestor,
                                  step, acted.events, acted.trace)

\* executeMicrotask, were it to run the transition's actions from the last one
\* to the first
executeMicrotaskActionsReversed(cfg, cur, toEnter, transitionToExecute, event, step, events, tr) ==
    LET leastCommonCompoundAncestor == findLeastCommonCompoundAncestor(cfg, <<cur, toEnter>>)
        exited == IF ~isTargetBlank(transitionToExecute)
                  THEN executeOnExitActions(cfg, cur, event, leastCommonCompoundAncestor,
                                            step, events, tr)
                  ELSE Executed(NoErr, events, tr)
        acted == executeActioners(Reverse(ItemsOf(transitionToExecute.Actions, NilNode)),
                                  [i \in 1..Len(transitionToExecute.Actions) |-> i - 1],
                                  1, transitionActionActionType, event, step,
                                  exited.events, exited.trace)
    IN IF exited.err # NoErr THEN exited
       ELSE IF acted.err # NoErr THEN acted
       ELSE IF ~isTargetBlank(transitionToExecute)
       THEN executeOnEntryActions(cfg, toEnter, event, leastCommonCompoundAncestor,
                                  step, acted.events, acted.trace)
       ELSE acted

\* Machine.executeMicrotask, machine.go:823-851
executeMicrotask(cfg, cur, stateNodeToEnter, transitionToExecute, event, step, events, trace) ==
    LET leastCommonCompoundAncestor ==
            findLeastCommonCompoundAncestor(cfg, <<cur, stateNodeToEnter>>)
        exited == IF ~isTargetBlank(transitionToExecute)
                  THEN executeOnExitActions(cfg, cur, event, leastCommonCompoundAncestor,
                                            step, events, trace)
                  ELSE Executed(NoErr, events, trace)
        acted == executeActioners(ItemsOf(transitionToExecute.Actions, NilNode),
                                  [i \in 1..Len(transitionToExecute.Actions) |-> i - 1],
                                  1, transitionActionActionType, event, step,
                                  exited.events, exited.trace)
    IN IF exited.err # NoErr THEN exited
       ELSE IF acted.err # NoErr THEN acted
       ELSE IF ~isTargetBlank(transitionToExecute)
       THEN executeOnEntryActions(cfg, stateNodeToEnter, event, leastCommonCompoundAncestor,
                                  step, acted.events, acted.trace)
       ELSE acted

\* What handleExternalEvent did: the error it returns, the node it is about to
\* make current (stateNodeToEnter), the queue and the trace afterwards, and the
\* node whose handler was used, the index of the selected transition (0: none)
\* and whether its target is blank.
Handled(err, node, events, trace, withHandler, selected, blank) ==
    [err |-> err, node |-> node, events |-> events, trace |-> trace,
     withHandler |-> withHandler, selected |-> selected, blank |-> blank]

\* Machine.handleExternalEvent, machine.go:875-897, up to the assignments of
\* lines 899-900: the set of outcomes (getTarget may return several nodes)
handleExternalEvent(cfg, cur, event, step, events, trace) ==
    LET stateNodeWithHandler == resolveStateNodeWithHandler(cfg, cur, event)
    IN IF stateNodeWithHandler = NilNode
       THEN { Handled(ErrNoHandlerToHandleEvent(event), NilNode, events, trace,
                      NilNode, 0, FALSE) }
       ELSE
       LET ts == transitions(cfg[stateNodeWithHandler].On[event])
           sel == selectTransition(ts, 1, <<>>)
           guarded == trace \o [k \in 1..Len(sel.conds) |->
                                  Ran(step, "cond", stateNodeWithHandler, sel.conds[k] - 1,
                                      ts[sel.conds[k]].Cond, event, machineStateNodeContext)]
       IN IF ~sel.ok
          THEN { Handled(ErrNoTransitionCouldBeRun, NilNode, events, guarded,
                         stateNodeWithHandler, 0, FALSE) }
          ELSE
          LET transitionToExecute == ts[sel.index]
          IN { IF r.err # NoErr
               THEN Handled(r.err, NilNode, events, guarded, stateNodeWithHandler,
                            sel.index, isTargetBlank(transitionToExecute))
               ELSE LET x == executeMicrotask(cfg, cur, r.node, transitionToExecute,
                                              event, step, events, guarded)
                    IN Handled(x.err, r.node, x.events, x.trace, stateNodeWithHandler,
                               sel.index, isTargetBlank(transitionToExecute))
             : r \in resolveStateNodeToEnter(cfg, stateNodeWithHandler, transitionToExecute,
                                             AllStamped(cfg)) }

\* ------------------------------------------------------------------ configurations
\* The on/off machine of TestOnOffMachine
OnOffMachine ==
    (Root :> StateNode(nOff, <<>>, <<>>, NoEvents))
    @@ (<<nOn>> :> StateNode(NoneState, <<>>, <<>>, ("off" :> OnState(nOff))))
    @@ (<<nOff>> :> StateNode(NoneState, <<>>, <<>>, ("on" :> OnState(nOn))))

\* The machine of TestCompoundStates: c is the compound state, a and b its
\* children, x the atomic state
CompoundMachine ==
    (Root :> StateNode(nC, <<ActionFn("RootOnEntry", FALSE)>>,
                       <<ActionFn("RootOnExit", FALSE)>>, NoEvents))
    @@ (<<nC>> :> StateNode(nA, <<ActionFn("CompoundStateOnEntry", FALSE)>>,
                            <<ActionFn("CompoundStateOnExit", FALSE)>>,
                            ("go" :> OnCompound({ <<nC, State(nB)>> }))
                            @@ ("exit" :> OnState(nX))))
    @@ (<<nC, nA>> :> StateNode(NoneState, <<ActionFn("NestedAStateOnEntry", FALSE)>>,
                                <<ActionFn("NestedAStateOnExit", FALSE)>>, NoEvents))
    @@ (<<nC, nB>> :> StateNode(NoneState, <<ActionFn("NestedBStateOnEntry", FALSE)>>,
                                <<ActionFn("NestedBStateOnExit", FALSE)>>, NoEvents))
    @@ (<<nX>> :> StateNode(NoneState, <<ActionFn("AtomicStateOnEntry", FALSE)>>,
                            <<ActionFn("AtomicStateOnExit", FALSE)>>, NoEvents))

\* The largest number of guarded transitions in one handler
MaxGuards == 3

\* Sequences of guards of length 1..MaxGuards
CondLists == UNION { [1..n -> {"nil", "true", "false"}] : n \in 1..MaxGuards }

\* A compound state c whose child a handles "on" with the guarded transitions
\* conds (odd ones go to c.b, even ones are blank) and whose own handler for
\* "on" goes to x.
GuardMachine(conds) ==
    (Root :> StateNode(nC, <<>>, <<>>, NoEvents))
    @@ (<<nC>> :> StateNode(nA, <<ActionFn("cEntry", FALSE)>>, <<ActionFn("cExit", FALSE)>>,
                            ("on" :> OnTransition(Transition("nil", State(nX),
                                                  <<ActionFn("fallback", FALSE)>>)))))
    @@ (<<nC, nA>> :> StateNode(NoneState, <<ActionFn("aEntry", FALSE)>>,
                                <<ActionFn("aExit", FALSE)>>,
            ("on" :> OnTransitions([i \in 1..Len(conds) |->
                        Transition(conds[i],
                                   IF i % 2 = 1 THEN Compound({ <<nC, State(nB)>> })
                                   ELSE NilTarget,
                                   <<ActionFn("guarded", FALSE)>>)]))))
    @@ (<<nC, nB>> :> StateNode(NoneState, <<ActionFn("bEntry", FALSE)>>,
                                <<ActionFn("bExit", FALSE)>>,
                                ("off" :> OnCompound({ <<nC, State(nA)>> }))))
    @@ (<<nX>> :> StateNode(NoneState, <<ActionFn("xEntry", FALSE)>>, <<>>, NoEvents))

\* Where an action fails in FailingMachine
FailingPlaces == {"none", "exit", "action", "entry", "later"}

\* The on/off machine with exit, transition and entry actions, one of which
\* returns an error; the transition also sends "off" to the machine itself.
\* With "later" the micro-step of that self-queued event is the one that fails.
FailingMachine(place) ==
    (Root :> StateNode(nOff, <<ActionFn("rootEntry", FALSE)>>,
                       <<ActionFn("rootExit", FALSE)>>, NoEvents))
    @@ (<<nOff>> :> StateNode(NoneState, <<ActionFn("offEntry", FALSE)>>,
                              <<ActionFn("offExit1", FALSE), ActionFn("offExit2", place = "exit")>>,
            ("on" :> OnTransition(Transition("nil", State(nOn),
                        <<ActionFn("act1", FALSE), SendAction("off"),
                          ActionFn("act2", place = "action"), ActionFn("act3", FALSE)>>)))))
    @@ (<<nOn>> :> StateNode(NoneState,
                             <<ActionFn("onEntry1", place = "entry"), ActionFn("onEntry2", FALSE)>>,
                             <<ActionFn("onExit", FALSE)>>,
            ("off" :> OnTransition(Transition("nil", State(nOff),
                        <<ActionFn("back", place = "later")>>)))))

\* A blank-target transition declared on the compound state c and one on the
\* root, above the current leaf (TestBlankTargetTriggersNoEntryActionsNorExitActions
\* declares it on the leaf itself, as x does here)
BlankTargetMachine ==
    (Root :> StateNode(nC, <<ActionFn("RootOnEntry", FALSE)>>,
                       <<ActionFn("RootOnExit", FALSE)>>,
                       ("tick" :> OnTransition(Transition("nil", State(NoneState),
                                               <<ActionFn("rootTick", FALSE)>>)))))
    @@ (<<nC>> :> StateNode(nA, <<ActionFn("cEntry", FALSE)>>, <<ActionFn("cExit", FALSE)>>,
                            ("on" :> OnTransition(Transition("nil", NilTarget,
                                                  <<ActionFn("cOn", FALSE)>>)))
                            @@ ("exit" :> OnState(nX))))
    @@ (<<nC, nA>> :> StateNode(NoneState, <<ActionFn("aEntry", FALSE)>>,
                                <<ActionFn("aExit", FALSE)>>, NoEvents))
    @@ (<<nX>> :> StateNode(NoneState, <<ActionFn("xEntry", FALSE)>>,
                            <<ActionFn("xExit", FALSE)>>,
                            ("on" :> OnTransition(Transition("nil", NilTarget,
                                                  <<ActionFn("xOn", FALSE)>>)))
                            @@ ("off" :> OnState(nC))))

\* Three levels of states: c.b is a compound child of the compound state c,
\* with several actions per list, a Send action among the exit actions of c, a
\* handler on c.b above its leaves d and e, and targets given as paths
DeepMachine ==
    (Root :> StateNode(nC, <<ActionFn("RootOnEntry", FALSE)>>,
                       <<ActionFn("RootOnExit", FALSE)>>, NoEvents))
    @@ (<<nC>> :> StateNode(nB, <<ActionFn("cEntry1", FALSE), ActionFn("cEntry2", FALSE)>>,
                            <<ActionFn("cExit1", FALSE), SendAction("tick"),
                              ActionFn("cExit2", FALSE)>>,
                            ("exit" :> OnTransition(Transition("nil", State(nX),
                                                    <<ActionFn("leave", FALSE)>>)))))
    @@ (<<nC, nB>> :> StateNode(nD, <<ActionFn("bEntry", FALSE)>>, <<ActionFn("bExit", FALSE)>>,
            ("on" :> OnTransitions(<< Transition("false", NilTarget, <<ActionFn("never", FALSE)>>),
                                      Transition("nil", Compound({ <<nC, State(nB)>> }),
                                                 <<ActionFn("again", FALSE)>>) >>))))
    @@ (<<nC, nB, nD>> :> StateNode(NoneState, <<ActionFn("dEntry", FALSE)>>,
                                    <<ActionFn("dExit", FALSE)>>,
                                    ("go" :> OnCompound({ <<nB, State(nE)>> }))))
    @@ (<<nC, nB, nE>> :> StateNode(NoneState, <<ActionFn("eEntry", FALSE)>>,
                                    <<ActionFn("eExit1", FALSE), ActionFn("eExit2", FALSE)>>,
                                    ("go" :> OnCompound({ <<nB, State(nD)>> }))))
    @@ (<<nX>> :> StateNode(NoneState, <<ActionFn("xEntry", FALSE)>>,
                            <<ActionFn("xExit", FALSE)>>,
                            ("tick" :> OnTransition(Transition("true", NilTarget,
                                                    <<ActionFn("xTick", FALSE)>>)))
                            @@ ("off" :> OnState(nC))))

\* The machine of TestCanSendEventsWithSendAction, with a second Send action and
\* a way back: the blank-target transition of c.a sends exit, then on, to the
\* machine itself
SendActionMachine ==
    (Root :> StateNode(nC, <<>>, <<>>, NoEvents))
    @@ (<<nC>> :> StateNode(nA, <<>>, <<ActionFn("cExit", FALSE)>>, ("exit" :> OnState(nX))))
    @@ (<<nC, nA>> :> StateNode(NoneState, <<>>, <<ActionFn("aExit", FALSE)>>,
            ("tick" :> OnTransition(Transition("nil", NilTarget,
                         <<ActionFn("hello", FALSE), SendAction("exit"), SendAction("on"),
                           ActionFn("sent", FALSE)>>)))))
    @@ (<<nX>> :> StateNode(NoneState, <<ActionFn("xEntry", FALSE)>>, <<>>,
                            ("on" :> OnTransition(Transition("nil", State(nC),
                                                  <<ActionFn("back", FALSE)>>)))))

\* Which OnEntry action fails in InitialEntryMachine
FailingEntries == { "none", "r1", "r2", "c1", "c2", "a1", "a2" }

\* OnEntry actions on the root, on its initial state c and on the initial
\* state a of c, one of which returns an error; c also sends tick to the
\* machine itself when entered
InitialEntryMachine(failing) ==
    (Root :> StateNode(nC, <<ActionFn("r1", failing = "r1"), ActionFn("r2", failing = "r2")>>,
                       <<>>, NoEvents))
    @@ (<<nC>> :> StateNode(nA, <<ActionFn("c1", failing = "c1"), SendAction("tick"),
                                  ActionFn("c2", failing = "c2")>>,
                            <<ActionFn("cExit", FALSE)>>, ("exit" :> OnState(nX))))
    @@ (<<nC, nA>> :> StateNode(NoneState,
                                <<ActionFn("a1", failing = "a1"), ActionFn("a2", failing = "a2")>>,
                                <<ActionFn("aExit", FALSE)>>,
                                ("tick" :> OnTransition(Transition("nil", NilTarget,
                                                        <<ActionFn("ticked", FALSE)>>)))))
    @@ (<<nX>> :> StateNode(NoneState, <<ActionFn("xEntry", FALSE)>>, <<>>,
                            ("off" :> OnState(nC))))

\* Two compound states c and x next to each other, each with one leaf (c.a and
\* x.z) and a transition to the other, all with OnEntry and OnExit actions
TwoBranchesMachine ==
    (Root :> StateNode(nC, <<ActionFn("RootOnEntry", FALSE)>>,
                       <<ActionFn("RootOnExit", FALSE)>>, NoEvents))
    @@ (<<nC>> :> StateNode(nA, <<ActionFn("cEntry1", FALSE), ActionFn("cEntry2", FALSE)>>,
                            <<ActionFn("cExit1", FALSE), ActionFn("cExit2", FALSE)>>,
                            ("go" :> OnTransition(Transition("nil", State(nX),
                                                  <<ActionFn("toX", FALSE)>>)))))
    @@ (<<nC, nA>> :> StateNode(NoneState, <<ActionFn("aEntry", FALSE)>>,
                                <<ActionFn("aExit1", FALSE), ActionFn("aExit2", FALSE)>>,
                                NoEvents))
    @@ (<<nX>> :> StateNode(nZ, <<ActionFn("xEntry", FALSE)>>, <<ActionFn("xExit", FALSE)>>,
                            ("go" :> OnState(nC))))
    @@ (<<nX, nZ>> :> StateNode(NoneState,
                                <<ActionFn("zEntry1", FALSE), ActionFn("zEntry2", FALSE)>>,
                                <<ActionFn("zExit", FALSE)>>, NoEvents))

\* Two compound states whose names begin alike, a and ab, each with a leaf b,
\* and a transition from each to the other
PrefixMachine ==
    (Root :> StateNode(nA, <<>>, <<>>, NoEvents))
    @@ (<<nA>> :> StateNode(nB, <<>>, <<>>, ("go" :> OnState(nAB))))
    @@ (<<nA, nB>> :> Leaf)
    @@ (<<nAB>> :> StateNode(nB, <<>>, <<>>,
                             ("go" :> OnState(nA))
                             @@ ("on" :> OnCompound({ <<nAB, State(nC)>> }))))
    @@ (<<nAB, nB>> :> Leaf)
    @@ (<<nAB, nC>> :> Leaf)

\* The on/off machine of TestOnOffMachine one level down, inside the compound
\* state c: on and off target each other by name
SiblingTargetMachine ==
    (Root :> StateNode(nC, <<>>, <<>>, NoEvents))
    @@ (<<nC>> :> StateNode(nOff, <<>>, <<>>, NoEvents))
    @@ (<<nC, nOn>> :> StateNode(NoneState, <<>>, <<>>, ("off" :> OnState(nOff))))
    @@ (<<nC, nOff>> :> StateNode(NoneState, <<>>, <<>>, ("on" :> OnState(nOn))))

\* The state x targets by name the state a, which is a child of its sibling c
\* (TestResolvesChildTransitionsCorrectly targets a child of the state itself,
\* as ChildTargetMachine does)
NephewTargetMachine ==
    (Root :> StateNode(nX, <<>>, <<>>, NoEvents))
    @@ (<<nX>> :> StateNode(NoneState, <<>>, <<>>, ("go" :> OnState(nA))))
    @@ (<<nC>> :> StateNode(nA, <<>>, <<>>, NoEvents))
    @@ (<<nC, nA>> :> Leaf)

\* The name a at two nesting levels: y targets the state a.a.x with the path
\* a, a, x.  With withAX the state a has a child named x as well.
RepeatedNameMachine(withAX) ==
    LET machine ==
            (Root :> StateNode(nY, <<>>, <<>>, NoEvents))
            @@ (<<nY>> :> StateNode(NoneState, <<>>, <<>>,
                    ("go" :> OnCompound({ <<nA, Compound({ <<nA, State(nX)>> })>> }))))
            @@ (<<nA>> :> StateNode(nA, <<>>, <<>>, NoEvents))
            @@ (<<nA, nA>> :> StateNode(nX, <<>>, <<>>, NoEvents))
            @@ (<<nA, nA, nX>> :> Leaf)
            @@ (<<nA, nA, nY>> :> Leaf)
    IN IF withAX THEN machine @@ (<<nA, nX>> :> Leaf) ELSE machine

\* A key that holds the separator of the ids: the child b of a and the state
\* named "a.b", a sibling of a
DottedNameMachine ==
    (Root :> StateNode(nA, <<>>, <<>>, NoEvents))
    @@ (<<nA>> :> StateNode(nB, <<>>, <<>>, ("go" :> OnState(nADotB))))
    @@ (<<nA, nB>> :> Leaf)
    @@ (<<nADotB>> :> StateNode(NoneState, <<>>, <<>>, ("go" :> OnState(nA))))

\* Transitions that target the leaf that handles the event: on targets itself
\* by name, c.a by the path c, a
SelfTargetMachine ==
    (Root :> StateNode(nC, <<ActionFn("RootOnEntry", FALSE)>>,
                       <<ActionFn("RootOnExit", FALSE)>>, NoEvents))
    @@ (<<nC>> :> StateNode(nA, <<ActionFn("cEntry", FALSE)>>, <<ActionFn("cExit", FALSE)>>,
                            ("exit" :> OnState(nOn))))
    @@ (<<nC, nA>> :> StateNode(NoneState, <<ActionFn("aEntry", FALSE)>>,
                                <<ActionFn("aExit", FALSE)>>,
            ("tick" :> OnTransition(Transition("nil", Compound({ <<nC, State(nA)>> }),
                                               <<ActionFn("aAgain", FALSE)>>)))))
    @@ (<<nOn>> :> StateNode(NoneState,
                             <<ActionFn("onEntry1", FALSE), ActionFn("onEntry2", FALSE)>>,
                             <<ActionFn("onExit1", FALSE), ActionFn("onExit2", FALSE)>>,
            ("tick" :> OnTransition(Transition("nil", State(nOn),
                                               <<ActionFn("onAgain", FALSE)>>)))
            @@ ("off" :> OnState(nC))))

\* The on/off machine with an action that calls method on the machine itself:
\* the transition from off to on sends off to the machine, and the transition
\* from on to off runs that action
ReentrantMachine(method) ==
    (Root :> StateNode(nOff, <<>>, <<>>, NoEvents))
    @@ (<<nOff>> :> StateNode(NoneState, <<>>, <<>>,
            ("on" :> OnTransition(Transition("nil", State(nOn),
                        <<SendAction("off"), ActionFn("sent", FALSE)>>)))
            @@ ("off" :> OnTransition(Transition("nil", NilTarget,
                                                 <<ActionFn("stay", FALSE)>>)))))
    @@ (<<nOn>> :> StateNode(NoneState, <<>>, <<>>,
            ("off" :> OnTransition(Transition("nil", State(nOff),
                        <<ActionFn("before", FALSE), ActionFnCalling(method),
                          ActionFn("after", FALSE)>>)))))

\* A handler with a real target declared on the root state node
RootHandlerMachine ==
    (Root :> StateNode(nA, <<>>, <<>>, ("go" :> OnState(nB))))
    @@ (<<nA>> :> StateNode(NoneState, <<>>, <<>>, ("on" :> OnState(nB))))
    @@ (<<nB>> :> Leaf)

\* An atomic root that declares a handler with a real target
AtomicRootMachine ==
    (Root :> StateNode(NoneState, <<ActionFn("RootOnEntry", FALSE)>>, <<>>,
                       ("go" :> OnState(nB))))

\* The machine of TestPreemptivelyValidatesTransitions: on targets z, which
\* does not exist
UnknownTargetMachine ==
    (Root :> StateNode(nOff, <<>>, <<>>, NoEvents))
    @@ (<<nOn>> :> StateNode(NoneState, <<>>, <<>>, ("off" :> OnState(nZ))))
    @@ (<<nOff>> :> StateNode(NoneState, <<>>, <<>>, ("on" :> OnState(nOn))))

\* The two machines of TestResolvesChildTransitionsCorrectly
ChildTargetMachine(tgt) ==
    (Root :> StateNode(nC, <<>>, <<>>, NoEvents))
    @@ (<<nC>> :> StateNode(nA, <<>>, <<>>, ("go" :> OnTransition(Transition("nil", tgt, <<>>)))))
    @@ (<<nC, nA>> :> Leaf)
    @@ (<<nC, nB>> :> Leaf)

\* What Initial is in InitialMachine
Initials == { NoneState, nZ, nA }

\* A compound state c whose Initial is blank, names no child, or is valid, next
\* to a state x whose handler targets c; the same Initial on the root when
\* atRoot
InitialMachine(initial, atRoot) ==
    (Root :> StateNode(IF atRoot THEN initial ELSE nX, <<>>, <<>>, NoEvents))
    @@ (<<nX>> :> StateNode(NoneState, <<>>, <<>>, ("go" :> OnState(nC))))
    @@ (<<nC>> :> StateNode(IF atRoot THEN nA ELSE initial, <<>>, <<>>, NoEvents))
    @@ (<<nC, nA>> :> Leaf)
    @@ (<<nA>> :> Leaf)

\* The configurations the model is checked with
Configs ==
    { OnOffMachine, CompoundMachine, DeepMachine, BlankTargetMachine, RootHandlerMachine,
      AtomicRootMachine, UnknownTargetMachine, SendActionMachine, TwoBranchesMachine,
      PrefixMachine, SiblingTargetMachine, NephewTargetMachine,
      ChildTargetMachine(State(nB)), ChildTargetMachine(Compound({ <<nC, State(nB)>> })),
      RepeatedNameMachine(TRUE), RepeatedNameMachine(FALSE), DottedNameMachine,
      SelfTargetMachine }
    \cup { GuardMachine(conds) : conds \in CondLists }
    \cup { FailingMachine(place) : place \in FailingPlaces }
    \cup { InitialMachine(i, r) : i \in Initials, r \in BOOLEAN }
    \cup { InitialEntryMachine(failing) : failing \in FailingEntries }

\* The event types callers send
EventTypes == { "on", "off", "go", "exit", "tick", "unknown" }

\* ------------------------------------------------------------------ state
\* The threads that use the machine: Callers call Send one after the other,
\* Threads call Send, Current and Previous concurrently
Threads == { "t1", "t2" }
Callers == { "t1" }
NoThread == "none"

VARIABLES
    config,          \* the StateNode tree given to NewMachine
    constructed,     \* "no" before NewMachine, then "machine" (a machine was
                     \* returned), "nil" (nil and an error) or "panic"
    newErr,          \* the error NewMachine returned
    current,         \* Machine.current
    previous,        \* Machine.previous
    externalEvents,  \* Machine.externalEvents, the events queue
    disableLocking,  \* Machine.disableLocking
    lock,            \* the thread that holds Machine.lock, or NoThread
    pc,              \* where each thread is: "idle", "loop" (machine.go:915),
                     \* "commit" (machine.go:899), "assign" (machine.go:900),
                     \* "Send", "Current", "Previous" (waiting for the lock),
                     \* "blocked" (in a lock.Lock() that never returns)
    arg,             \* the event each thread's Send call was given
    stateNodeToEnter,\* the local variable of handleExternalEvent, per thread
    ret,             \* what each thread's last Send call returned
    steps,           \* the number of events each thread's Send call has polled
    trace,           \* the guards and actions called since the last Send call began
    last,            \* what the last micro-step did, and the state it started from
    atCall,          \* current and previous when each thread's Send call began
    origins,         \* for each event of the queue, what added it
    observed,        \* what the last Current or Previous call returned
    matched,         \* what the last Matches call was given and returned
    committed,       \* the nodes the micro-steps of the last Send call made current
    queueLog         \* the calls of Add and Poll made on the queue by itself: the
                     \* events added, the events polled, what Poll returned when the last call was one

vars == << config, constructed, newErr, current, previous, externalEvents,
           disableLocking, lock, pc, arg, stateNodeToEnter, ret, steps, trace, last,
           atCall, origins, observed, matched, committed, queueLog >>

Returned(node, err) == [node |-> node, err |-> err]

QueueLog(added, polled, result) == [added |-> added, polled |-> polled, last |-> result]
\* What Poll returned: the event and ok
Polled(event, ok) == [called |-> TRUE, event |-> event, ok |-> ok]
\* The last call was not a Poll
NoPolled == [called |-> FALSE, event |-> "", ok |-> FALSE]

\* What added an event to the queue: by is "Send" for the argument of a Send
\* call (machine.go:913) and "action" for a Send action (part_007); step is the
\* micro-step, counted within its Send call, whose action added it (0 for the
\* initial transition); stale tells that a Send call began after it was added.
Origin(by, step, stale) == [by |-> by, step |-> step, stale |-> stale]

NoOrigin == Origin("", 0, FALSE)

\* The record of a micro-step: the thread, the event, the outcome of
\* handleExternalEvent (without its trace and queue), and current and previous
\* before it
Step(t, event, o, cur, prev, origin) ==
    [thread |-> t, event |-> event, err |-> o.err, node |-> o.node,
     withHandler |-> o.withHandler, selected |-> o.selected, blank |-> o.blank,
     current |-> cur, previous |-> prev, origin |-> origin]

NoStep == Step(NoThread, "", Handled(NoErr, NilNode, <<>>, <<>>, NilNode, 0, FALSE),
               NilNode, NilNode, NoOrigin)

Before(cur, prev) == [current |-> cur, previous |-> prev]

\* What a Current or Previous call returned, and where every thread was when
\* it read the field
Observed(fn, value, at) == [fn |-> fn, value |-> value, at |-> at]

NoObserved == Observed("", NilNode, [t \in Threads |-> "idle"])

\* What a Matches call was given and returned
Matched(node, stateSelectors, result) ==
    [node |-> node, stateSelectors |-> stateSelectors, result |-> result]

NoMatched == Matched(NilNode, <<>>, FALSE)

\* The state before NewMachine, for a configuration among configs
InitOf(configs) ==
    /\ config \in configs
    /\ constructed = "no"
    /\ newErr = NoErr
    /\ current = NilNode
    /\ previous = NilNode
    /\ externalEvents = <<>>
    /\ disableLocking = FALSE
    /\ lock = NoThread
    /\ pc = [t \in Threads |-> "idle"]
    /\ arg = [t \in Threads |-> ""]
    /\ stateNodeToEnter = [t \in Threads |-> NilNode]
    /\ ret = [t \in Threads |-> Returned(NilNode, NoErr)]
    /\ steps = [t \in Threads |-> 0]
    /\ trace = <<>>
    /\ last = NoStep
    /\ atCall = [t \in Threads |-> Before(NilNode, NilNode)]
    /\ origins = <<>>
    /\ observed = NoObserved
    /\ matched = NoMatched
    /\ committed = <<>>
    /\ queueLog = QueueLog(<<>>, <<>>, NoPolled)

Init == InitOf(Configs)

\* Machine.init, were the initial transition to stop below the root state node
MachineInitBelowRoot(cfg, err) ==
    IF err # NoErr THEN Executed(err, <<>>, <<>>)
    ELSE executeOnEntryActions(cfg, resolveMostNestedInitialStateNode(cfg, Root),
                               InitialTransitionEventType, Root, 0, <<>>, <<>>)

\* Machine.init, were it to return nil whatever the entry actions return
MachineInitIgnoringErrors(cfg, err) ==
    IF err # NoErr THEN Executed(err, <<>>, <<>>)
    ELSE LET done == executeOnEntryActions(cfg, resolveMostNestedInitialStateNode(cfg, Root),
                                           InitialTransitionEventType, NilNode, 0, <<>>, <<>>)
         IN Executed(NoErr, done.events, done.trace)

\* Machine.init, machine.go:750-761, after validate returned err: the error it
\* returns and the queue and trace its entry actions leave
MachineInit(cfg, err) ==
    IF err # NoErr THEN Executed(err, <<>>, <<>>)
    ELSE executeOnEntryActions(cfg, resolveMostNestedInitialStateNode(cfg, Root),
                               InitialTransitionEventType, NilNode, 0, <<>>, <<>>)

\* NewMachine, machine.go:688-702
NewMachine ==
    /\ constructed = "no"
    /\ \E err \in MachineValidate(config) :
         LET done == MachineInit(config, err)
             queued == IF done.err = NoErr THEN done.events ELSE <<>>
         IN /\ constructed' = IF done.err = PanicErr THEN "panic"
                              ELSE IF done.err # NoErr THEN "nil" ELSE "machine"
            /\ newErr' = IF done.err = PanicErr THEN NoErr ELSE done.err
            /\ current' = IF done.err = NoErr
                          THEN resolveMostNestedInitialStateNode(config, Root)
                          ELSE NilNode
            /\ externalEvents' = queued
            /\ origins' = [i \in 1..Len(queued) |-> Origin("action", 0, FALSE)]
            /\ trace' = done.trace
    /\ UNCHANGED << config, previous, disableLocking, lock, pc, arg, stateNodeToEnter,
                    ret, steps, last, atCall, observed, matched, queueLog, committed >>

\* Machine.Send, were it to queue the event without waiting for the lock
SendCallWithoutLock(t, event) ==
    /\ constructed = "machine"
    /\ pc[t] = "idle"
    /\ Len(externalEvents) < MaxQueue
    /\ lock' = IF disableLocking THEN lock ELSE t
    /\ externalEvents' = Add(externalEvents, event)
    /\ origins' = Append([i \in 1..Len(origins) |-> [origins[i] EXCEPT !.stale = TRUE]],
                         Origin("Send", 0, FALSE))
    /\ pc' = [pc EXCEPT ![t] = "loop"]
    /\ arg' = [arg EXCEPT ![t] = event]
    /\ steps' = [steps EXCEPT ![t] = 0]
    /\ trace' = <<>>
    /\ atCall' = [atCall EXCEPT ![t] = Before(current, previous)]
    /\ committed' = <<>>
    /\ UNCHANGED << config, constructed, newErr, current, previous, disableLocking,
                    stateNodeToEnter, ret, last, observed, matched, queueLog >>

\* Machine.Send, machine.go:907-913: take the lock and queue the event
SendCall(t, event) ==
    /\ constructed = "machine"
    /\ pc[t] = "idle"
    /\ disableLocking \/ lock = NoThread
    /\ Len(externalEvents) < MaxQueue
    /\ lock' = IF disableLocking THEN lock ELSE t
    /\ externalEvents' = Add(externalEvents, event)
    /\ origins' = Append([i \in 1..Len(origins) |-> [origins[i] EXCEPT !.stale = TRUE]],
                         Origin("Send", 0, FALSE))
    /\ pc' = [pc EXCEPT ![t] = "loop"]
    /\ arg' = [arg EXCEPT ![t] = event]
    /\ steps' = [steps EXCEPT ![t] = 0]
    /\ trace' = <<>>
    /\ atCall' = [atCall EXCEPT ![t] = Before(current, previous)]
    /\ committed' = <<>>
    /\ UNCHANGED << config, constructed, newErr, current, previous, disableLocking,
                    stateNodeToEnter, ret, last, observed, matched, queueLog >>

\* Machine.Send, machine.go:921-923: handleExternalEvent returned the error of
\* outcome o, and Send returns machine.current with it
SendFailsCommitted(t, o) ==
    /\ ret' = [ret EXCEPT ![t] = Returned(IF o.node = NilNode THEN current ELSE o.node, o.err)]
    /\ pc' = [pc EXCEPT ![t] = "idle"]
    /\ lock' = IF disableLocking THEN lock ELSE NoThread
    /\ previous' = IF o.node = NilNode THEN previous ELSE current
    /\ current' = IF o.node = NilNode THEN current ELSE o.node
    /\ UNCHANGED stateNodeToEnter

\* Machine.Send, were an error to undo the micro-steps the call had committed
SendFailsRolledBack(t, o) ==
    /\ ret' = [ret EXCEPT ![t] = Returned(atCall[t].current, o.err)]
    /\ pc' = [pc EXCEPT ![t] = "idle"]
    /\ lock' = IF disableLocking THEN lock ELSE NoThread
    /\ current' = atCall[t].current
    /\ previous' = atCall[t].previous
    /\ UNCHANGED stateNodeToEnter

\* Machine.Send, were it to return an error without releasing the lock
SendFailsHoldingTheLock(t, o) ==
    /\ ret' = [ret EXCEPT ![t] = Returned(current, o.err)]
    /\ pc' = [pc EXCEPT ![t] = "idle"]
    /\ lock' = lock
    /\ UNCHANGED << stateNodeToEnter, current, previous >>

\* Machine.Send, machine.go:921-923: the return of an error, with the deferred
\* Unlock
SendFails(t, o) ==
    /\ ret' = [ret EXCEPT ![t] = Returned(current, o.err)]
    /\ pc' = [pc EXCEPT ![t] = "idle"]
    /\ lock' = IF disableLocking THEN lock ELSE NoThread
    /\ UNCHANGED << stateNodeToEnter, current, previous >>

\* Machine.Send, machine.go:915-923 with handleExternalEvent up to line 897:
\* poll one event and run its micro-step; an error ends the call
Microtask(t) ==
    /\ pc[t] = "loop"
    /\ Len(externalEvents) > 0
    /\ steps[t] < MaxSteps
    /\ LET polled == Poll(externalEvents)
       IN \E o \in handleExternalEvent(config, current, polled.event, steps[t] + 1,
                                       polled.events, trace) :
            /\ Len(o.events) <= MaxQueue
            /\ externalEvents' = o.events
            /\ origins' = SubSeq(origins, 2, Len(origins))
                          \o [k \in 1..(Len(o.events) - Len(polled.events)) |->
                                Origin("action", steps[t] + 1, FALSE)]
            /\ trace' = o.trace
            /\ last' = Step(t, polled.event, o, current, previous, origins[1])
            /\ steps' = [steps EXCEPT ![t] = steps[t] + 1]
            /\ IF o.err = BlockedErr
               THEN /\ pc' = [pc EXCEPT ![t] = "blocked"]
                    /\ UNCHANGED << stateNodeToEnter, ret, lock, current, previous >>
               ELSE IF o.err # NoErr
               THEN SendFails(t, o)
               ELSE /\ stateNodeToEnter' = [stateNodeToEnter EXCEPT ![t] = o.node]
                    /\ pc' = [pc EXCEPT ![t] = "commit"]
                    /\ UNCHANGED << ret, lock, current, previous >>
    /\ UNCHANGED << config, constructed, newErr, disableLocking, arg, atCall, observed,
                    matched, queueLog, committed >>

\* The first assignment of the commit, were it to save the node being entered
SavePreviousAsEntered(t) ==
    /\ pc[t] = "commit"
    /\ previous' = stateNodeToEnter[t]
    /\ pc' = [pc EXCEPT ![t] = "assign"]
    /\ UNCHANGED << config, constructed, newErr, current, externalEvents, disableLocking,
                    lock, arg, stateNodeToEnter, ret, steps, trace, last, atCall, origins,
                    observed, matched, queueLog, committed >>

\* Machine.handleExternalEvent, machine.go:899
SavePrevious(t) ==
    /\ pc[t] = "commit"
    /\ previous' = current
    /\ pc' = [pc EXCEPT ![t] = "assign"]
    /\ UNCHANGED << config, constructed, newErr, current, externalEvents, disableLocking,
                    lock, arg, stateNodeToEnter, ret, steps, trace, last, atCall, origins,
                    observed, matched, queueLog, committed >>

\* Machine.handleExternalEvent, machine.go:900-902
Commit(t) ==
    /\ pc[t] = "assign"
    /\ current' = stateNodeToEnter[t]
    /\ pc' = [pc EXCEPT ![t] = "loop"]
    /\ committed' = Append(committed, stateNodeToEnter[t])
    /\ UNCHANGED << config, constructed, newErr, previous, externalEvents, disableLocking,
                    lock, arg, stateNodeToEnter, ret, steps, trace, last, atCall, origins,
                    observed, matched, queueLog >>

\* Machine.Send, were it to return without looking at the queue
SendReturnEarly(t) ==
    /\ pc[t] = "loop"
    /\ ret' = [ret EXCEPT ![t] = Returned(current, NoErr)]
    /\ pc' = [pc EXCEPT ![t] = "idle"]
    /\ lock' = IF disableLocking THEN lock ELSE NoThread
    /\ UNCHANGED << config, constructed, newErr, current, previous, externalEvents,
                    disableLocking, arg, stateNodeToEnter, steps, trace, last, atCall,
                    origins, observed, matched, queueLog, committed >>

\* Machine.Send, machine.go:916-919 and 926: the queue is empty
SendReturn(t) ==
    /\ pc[t] = "loop"
    /\ ~Poll(externalEvents).ok
    /\ ret' = [ret EXCEPT ![t] = Returned(current, NoErr)]
    /\ pc' = [pc EXCEPT ![t] = "idle"]
    /\ lock' = IF disableLocking THEN lock ELSE NoThread
    /\ UNCHANGED << config, constructed, newErr, current, previous, externalEvents,
                    disableLocking, arg, stateNodeToEnter, steps, trace, last, atCall,
                    origins, observed, matched, queueLog, committed >>

Next ==
    \/ NewMachine
    \/ \E t \in Callers, event \in EventTypes : SendCall(t, event)
    \/ \E t \in Callers : Microtask(t)
    \/ \E t \in Callers : SavePrevious(t)
    \/ \E t \in Callers : Commit(t)
    \/ \E t \in Callers : SendReturn(t)

Spec == Init /\ [][Next]_vars

\* ------------------------------------------------------------------ threads
\* Machine.Current, were it to read the field without taking the lock
CurrentWithoutLock(t) ==
    /\ constructed = "machine"
    /\ pc[t] = "idle"
    /\ observed' = Observed("Current", current, pc)
    /\ UNCHANGED << config, constructed, newErr, current, previous, externalEvents,
                    disableLocking, lock, pc, arg, stateNodeToEnter, ret, steps, trace,
                    last, atCall, origins, matched, queueLog, committed >>

\* Machine.Current, machine.go:773-781: the lock is held from before the read
\* until the return
Current(t) ==
    /\ constructed = "machine"
    /\ pc[t] = "idle"
    /\ disableLocking \/ lock = NoThread
    /\ observed' = Observed("Current", current, pc)
    /\ UNCHANGED << config, constructed, newErr, current, previous, externalEvents,
                    disableLocking, lock, pc, arg, stateNodeToEnter, ret, steps, trace,
                    last, atCall, origins, matched, queueLog, committed >>

\* Machine.Previous, machine.go:763-771
Previous(t) ==
    /\ constructed = "machine"
    /\ pc[t] = "idle"
    /\ disableLocking \/ lock = NoThread
    /\ observed' = Observed("Previous", previous, pc)
    /\ UNCHANGED << config, constructed, newErr, current, previous, externalEvents,
                    disableLocking, lock, pc, arg, stateNodeToEnter, ret, steps, trace,
                    last, atCall, origins, matched, queueLog, committed >>

\* The configurations several threads use at once
ThreadConfigs == { CompoundMachine, SendActionMachine }

\* The event types they send
ThreadEventTypes == { "tick", "exit", "on", "go" }

InitThreads == InitOf(ThreadConfigs)

NextThreads ==
    \/ NewMachine
    \/ \E t \in Threads, event \in ThreadEventTypes : SendCall(t, event)
    \/ \E t \in Threads : Microtask(t)
    \/ \E t \in Threads : SavePrevious(t)
    \/ \E t \in Threads : Commit(t)
    \/ \E t \in Threads : SendReturn(t)
    \/ \E t \in Threads : Current(t)
    \/ \E t \in Threads : Previous(t)

\* Threads calling Send, Current and Previous on one machine
SpecThreads == InitThreads /\ [][NextThreads]_vars

\* ------------------------------------------------------------------ calls that wait
\* A call that waits for machine.lock: pc is the name of the method from the
\* call until lock.Lock() returns
Methods == { "Send", "Current", "Previous" }

CallConfigs == { OnOffMachine, GuardMachine(<<"false">>), FailingMachine("exit") }
CallEventTypes == { "on", "off" }

\* A thread calls Send(event), Current() or Previous()
Call(t, fn, event) ==
    /\ constructed = "machine"
    /\ pc[t] = "idle"
    /\ pc' = [pc EXCEPT ![t] = fn]
    /\ arg' = IF fn = "Send" THEN [arg EXCEPT ![t] = event] ELSE arg
    /\ UNCHANGED << config, constructed, newErr, current, previous, externalEvents,
                    disableLocking, lock, stateNodeToEnter, ret, steps, trace, last,
                    atCall, origins, observed, matched, queueLog, committed >>

\* Machine.Send, machine.go:907-913: lock.Lock() returns and the event is added
SendLocked(t) ==
    /\ pc[t] = "Send"
    /\ disableLocking \/ lock = NoThread
    /\ Len(externalEvents) < MaxQueue
    /\ lock' = IF disableLocking THEN lock ELSE t
    /\ externalEvents' = Add(externalEvents, arg[t])
    /\ origins' = Append([i \in 1..Len(origins) |-> [origins[i] EXCEPT !.stale = TRUE]],
                         Origin("Send", 0, FALSE))
    /\ pc' = [pc EXCEPT ![t] = "loop"]
    /\ steps' = [steps EXCEPT ![t] = 0]
    /\ trace' = <<>>
    /\ atCall' = [atCall EXCEPT ![t] = Before(current, previous)]
    /\ committed' = <<>>
    /\ UNCHANGED << config, constructed, newErr, current, previous, disableLocking, arg,
                    stateNodeToEnter, ret, last, observed, matched, queueLog >>

\* Machine.Current, machine.go:773-781, once lock.Lock() returns: the field is
\* read, the lock released and the call returns (the value read is not kept)
CurrentLocked(t) ==
    /\ pc[t] = "Current"
    /\ disableLocking \/ lock = NoThread
    /\ pc' = [pc EXCEPT ![t] = "idle"]
    /\ UNCHANGED << config, constructed, newErr, current, previous, externalEvents,
                    disableLocking, lock, arg, stateNodeToEnter, ret, steps, trace,
                    last, atCall, origins, observed, matched, queueLog, committed >>

\* Machine.Previous, machine.go:763-771, once lock.Lock() returns
PreviousLocked(t) ==
    /\ pc[t] = "Previous"
    /\ disableLocking \/ lock = NoThread
    /\ pc' = [pc EXCEPT ![t] = "idle"]
    /\ UNCHANGED << config, constructed, newErr, current, previous, externalEvents,
                    disableLocking, lock, arg, stateNodeToEnter, ret, steps, trace,
                    last, atCall, origins, observed, matched, queueLog, committed >>

InitCalls == InitOf(CallConfigs)

NextCalls ==
    \/ NewMachine
    \/ \E t \in Threads, event \in CallEventTypes : Call(t, "Send", event)
    \/ \E t \in Threads : Call(t, "Current", "")
    \/ \E t \in Threads : Call(t, "Previous", "")
    \/ \E t \in Threads : SendLocked(t)
    \/ \E t \in Threads : CurrentLocked(t)
    \/ \E t \in Threads : PreviousLocked(t)
    \/ \E t \in Threads : Microtask(t)
    \/ \E t \in Threads : SavePrevious(t)
    \/ \E t \in Threads : Commit(t)
    \/ \E t \in Threads : SendReturn(t)

\* The scheduler runs a thread that can run, and sync.Mutex hands the lock to
\* every thread that waits for it (its starvation mode)
FairCalls ==
    /\ WF_vars(\E t \in Threads :
                  Microtask(t) \/ SavePrevious(t) \/ Commit(t) \/ SendReturn(t))
    /\ \A t \in Threads :
           SF_vars(SendLocked(t) \/ CurrentLocked(t) \/ PreviousLocked(t))

\* Threads whose calls may wait for the lock, under fair scheduling
SpecCalls == InitCalls /\ [][NextCalls]_vars /\ FairCalls

\* ------------------------------------------------------------------ the queue alone
\* Largest number of Add calls
MaxAdded == 4

QueueEvents == { "on", "off", "tick" }

\* q.Add(event) on the queue of newEventsQueue(), queue.go:7-15
QueueAdd(event) ==
    /\ Len(queueLog.added) < MaxAdded
    /\ externalEvents' = Add(externalEvents, event)
    /\ queueLog' = [queueLog EXCEPT !.added = Append(@, event), !.last = NoPolled]
    /\ UNCHANGED << config, constructed, newErr, current, previous, disableLocking, lock,
                    pc, arg, stateNodeToEnter, ret, steps, trace, last, atCall, origins,
                    observed, matched, committed >>

\* q.Poll(), queue.go:17-32
QueuePoll ==
    LET polled == Poll(externalEvents)
    IN /\ externalEvents' = polled.events
       /\ queueLog' = [queueLog EXCEPT
                          !.polled = IF polled.ok THEN Append(@, polled.event) ELSE @,
                          !.last = Polled(polled.event, polled.ok)]
       /\ UNCHANGED << config, constructed, newErr, current, previous, disableLocking, lock,
                       pc, arg, stateNodeToEnter, ret, steps, trace, last, atCall, origins,
                       observed, matched, committed >>

InitQueue == InitOf({ OnOffMachine })

NextQueue ==
    \/ \E event \in QueueEvents : QueueAdd(event)
    \/ QueuePoll

\* Any sequence of Add and Poll calls on a queue
SpecQueue == InitQueue /\ [][NextQueue]_vars

\* The same threads and a machine one of whose actions calls the machine
ReentrantConfigs == { ReentrantMachine(method) : method \in Methods }
InitReentrant == InitOf(ReentrantConfigs)
SpecReentrant == InitReentrant /\ [][NextCalls]_vars

\* ------------------------------------------------------------------ Matches
\* The longest list of selectors given to Matches
MaxSelectors == 2

\* The selectors callers give to Matches
SelectorNames == { nA, nB, nAB, nC }

StateSelectors == UNION { [1..n -> SelectorNames] : n \in 0..MaxSelectors }

\* A call of StateNode.Matches, machine.go:417-426, on the node Current returns
MatchesCall(stateSelectors) ==
    /\ constructed = "machine"
    /\ \A t \in Threads : pc[t] = "idle"
    /\ disableLocking \/ lock = NoThread
    /\ matched' = Matched(current, stateSelectors, Matches(current, stateSelectors))
    /\ UNCHANGED << config, constructed, newErr, current, previous, externalEvents,
                    disableLocking, lock, pc, arg, stateNodeToEnter, ret, steps, trace,
                    last, atCall, origins, observed, committed, queueLog >>

\* The configurations whose nodes Matches is called on
MatchConfigs == { PrefixMachine, CompoundMachine }

InitMatches == InitOf(MatchConfigs)

NextMatches ==
    \/ Next
    \/ \E stateSelectors \in StateSelectors : MatchesCall(stateSelectors)

\* A caller sending events and calling Matches on the current state node
SpecMatches == InitMatches /\ [][NextMatches]_vars

\* ------------------------------------------------------------------ properties
\* The last micro-step belongs to the Send call whose trace is kept
LastStepKept == last.thread # NoThread /\ steps[last.thread] >= 1

\* The guards and actions the last micro-step called, in order
StepTrace ==
    IF LastStepKept THEN SelectSeq(trace, LAMBDA r : r.step = steps[last.thread]) ELSE <<>>

\* The actions (not the guards) the last micro-step called
StepActions == SelectSeq(StepTrace, LAMBDA r : r.phase # "cond")

\* The transitions of the handler the last micro-step used
LastTransitions == transitions(config[last.withHandler].On[last.event])

\* The Actioner, as declared in the configuration, that a trace entry of the
\* last micro-step stands for
Declared(r) ==
    IF r.phase = onExitActionType THEN config[r.node].OnExit[r.index + 1]
    ELSE IF r.phase = onEntryActionType THEN config[r.node].OnEntry[r.index + 1]
    ELSE LastTransitions[last.selected].Actions[r.index + 1]

\* The last micro-step called an action that returned an error
LastStepActionFailed ==
    \E k \in 1..Len(StepActions) : Declared(StepActions[k]).fails

\* C1: when an OnExit, transition or OnEntry action returns an error during a
\* micro-step, Send returns at once with an error that unwraps to the action's
\* error, and current and previous are what they were before that micro-step.
C1_FailedActionIsNotCommitted ==
    (LastStepKept /\ LastStepActionFailed) =>
        LET failed == Declared(StepActions[Len(StepActions)])
        IN /\ pc[last.thread] = "idle"
           /\ failed.fails
           /\ ret[last.thread].err.kind = "ErrAction"
           /\ ErrorsIs(ret[last.thread].err, UserErr(failed.name))
           /\ current = last.current
           /\ previous = last.previous

\* An OnEntry action of the destination failed after the exit and transition
\* actions of a real transition had run
C1_Witness ==
    /\ LastStepKept /\ LastStepActionFailed
    /\ ret[last.thread].err.type = onEntryActionType
    /\ last.node # last.current
    /\ \E k \in 1..Len(StepActions) : StepActions[k].phase = onExitActionType

\* No node from s up to the root declares a handler for the event type
NoHandlerFrom(s, eventType) ==
    \A k \in 0..Len(s) : eventType \notin DOMAIN config[SubSeq(s, 1, k)].On

\* C2: a Send call whose event has no handler on the current node nor on any
\* ancestor returns ErrNoHandlerToHandleEvent with that event, calls no guard
\* and no action, and leaves current and previous as they were.
C2_UnhandledEventIsIgnored ==
    \A t \in Threads :
        (pc[t] = "idle" /\ steps[t] >= 1 /\ NoHandlerFrom(atCall[t].current, arg[t])) =>
            /\ ret[t] = Returned(atCall[t].current, ErrNoHandlerToHandleEvent(arg[t]))
            /\ trace = <<>>
            /\ current = atCall[t].current
            /\ previous = atCall[t].previous

\* C3: Send never returns a target-resolution error.
C3_SendNeverFailsToResolve ==
    \A t \in Threads : ret[t].err.kind # "errorString"

\* Some handler of some node has a transition whose non-blank target does not
\* resolve relative to that node
HasUnresolvableTarget(cfg) ==
    \E n \in DOMAIN cfg : \E e \in DOMAIN cfg[n].On :
        \E i \in 1..Len(transitions(cfg[n].On[e])) :
            LET tr == transitions(cfg[n].On[e])[i]
            IN /\ ~isTargetBlank(tr)
               /\ \A r \in resolveStateNodeToEnter(cfg, n, tr, AllStamped(cfg)) : r.err # NoErr

\* C4: a configuration with an unresolvable transition target makes NewMachine
\* return nil and an error that is ErrInvalidTransitionNotImplemented.
C4_UnresolvableTargetIsRejected ==
    (constructed # "no" /\ HasUnresolvableTarget(config)) =>
        /\ constructed = "nil"
        /\ ErrorsIs(newErr, ErrInvalidTransitionNotImplemented)

\* Some compound node has a blank Initial or one that names none of its children
HasBadInitial(cfg) ==
    \E n \in DOMAIN cfg :
        /\ isCompound(cfg, n)
        /\ (cfg[n].Initial = NoneState \/ Append(n, cfg[n].Initial) \notin DOMAIN cfg)

\* C5: a compound node with a blank or invalid Initial makes NewMachine return
\* a configuration error; construction does not crash.
C5_BadInitialIsRejected ==
    (constructed # "no" /\ HasBadInitial(config)) =>
        /\ constructed = "nil"
        /\ newErr.kind \in {"ErrBlankInitialStateForCompoundState", "ErrInvalidInitialState"}

\* The rank of an action phase in a micro-step
PhaseRank(phase) ==
    IF phase = onExitActionType THEN 1
    ELSE IF phase = transitionActionActionType THEN 2 ELSE 3

\* The length of the longest common proper prefix of two paths, -1 when one of
\* them is the root
CommonDepth(a, b) ==
    LET ks == { k \in 0..Len(a) : k < Len(a) /\ k < Len(b) /\ SubSeq(a, 1, k) = SubSeq(b, 1, k) }
    IN IF ks = {} THEN -1 ELSE CHOOSE k \in ks : \A j \in ks : j <= k

\* The number of OnExit actions declared from cur up to, and without, the
\* deepest proper ancestor it shares with dest
RECURSIVE ExitCount(_, _)
ExitCount(s, depth) ==
    IF Len(s) <= depth THEN 0
    ELSE Len(config[s].OnExit) + (IF s = Root THEN 0 ELSE ExitCount(parentStateNode(s), depth))

CountPhase(seq, phase) == Len(SelectSeq(seq, LAMBDA r : r.phase = phase))

\* C6: in a micro-step with a real target, the OnExit actions all run before
\* the first transition action, and the transition actions all run before the
\* first OnEntry action.
C6_ExitThenActionsThenEntry ==
    (LastStepKept /\ last.selected # 0 /\ ~last.blank /\ last.node # NilNode) =>
        /\ \A i, j \in 1..Len(StepActions) :
               i < j => PhaseRank(StepActions[i].phase) <= PhaseRank(StepActions[j].phase)
        /\ (\E k \in 1..Len(StepActions) : StepActions[k].phase # onExitActionType)
               => CountPhase(StepActions, onExitActionType)
                      = ExitCount(last.current, CommonDepth(last.current, last.node))
        /\ (\E k \in 1..Len(StepActions) : StepActions[k].phase = onEntryActionType)
               => CountPhase(StepActions, transitionActionActionType)
                      = Len(LastTransitions[last.selected].Actions)

\* A micro-step ran exit actions, transition actions and entry actions
C6_Witness ==
    /\ LastStepKept /\ ~last.blank /\ last.err = NoErr
    /\ CountPhase(StepActions, onExitActionType) >= 2
    /\ CountPhase(StepActions, transitionActionActionType) >= 2
    /\ CountPhase(StepActions, onEntryActionType) >= 2

\* The guards the last micro-step called
StepConds == SelectSeq(StepTrace, LAMBDA r : r.phase = "cond")

\* The indices of the transitions whose guard is absent or returns true
Passing(ts) == { i \in 1..Len(ts) : ts[i].Cond \in {"nil", "true"} }

\* C7: the first transition whose guard is absent or true is selected; the
\* guards are called in declared order, once each, and none after the selected
\* transition.
C7_FirstPassingGuardSelected ==
    (LastStepKept /\ last.withHandler # NilNode) =>
        LET ts == LastTransitions
            first == IF Passing(ts) = {} THEN 0
                     ELSE CHOOSE i \in Passing(ts) : \A j \in Passing(ts) : i <= j
            upTo == IF first = 0 THEN Len(ts) ELSE first
            toCall == { i \in 1..upTo : ts[i].Cond # "nil" }
        IN /\ last.selected = first
           /\ Len(StepConds) = Cardinality(toCall)
           /\ \A k \in 1..Len(StepConds) :
                  /\ StepConds[k].index + 1 \in toCall
                  /\ StepConds[k].result = ts[StepConds[k].index + 1].Cond
           /\ \A k, m \in 1..Len(StepConds) : k < m => StepConds[k].index < StepConds[m].index

\* The second transition was selected after the guard of the first returned
\* false, and a third transition has a guard
C7_Witness ==
    /\ LastStepKept /\ last.withHandler # NilNode
    /\ last.selected = 2
    /\ Len(LastTransitions) = 3
    /\ LastTransitions[1].Cond = "false"
    /\ LastTransitions[2].Cond = "true"
    /\ LastTransitions[3].Cond = "true"

\* The node nearest to s, s included, that declares a handler for the event type
NearestHandler(s, eventType) ==
    LET ks == { k \in 0..Len(s) : eventType \in DOMAIN config[SubSeq(s, 1, k)].On }
    IN IF ks = {} THEN NilNode ELSE SubSeq(s, 1, CHOOSE k \in ks : \A j \in ks : j <= k)

\* C8: when every guard of the nearest handler returns false, the micro-step
\* ends Send with ErrNoTransitionCouldBeRun, calls no action, leaves current and
\* previous as they were, and does not use an ancestor's handler.
C8_AllGuardsFalseStopsSend ==
    LET near == NearestHandler(last.current, last.event)
    IN (/\ LastStepKept
        /\ near # NilNode
        /\ \A i \in 1..Len(transitions(config[near].On[last.event])) :
               transitions(config[near].On[last.event])[i].Cond = "false") =>
           /\ last.withHandler = near
           /\ last.err = ErrNoTransitionCouldBeRun
           /\ pc[last.thread] = "idle"
           /\ ret[last.thread] = Returned(last.current, ErrNoTransitionCouldBeRun)
           /\ StepActions = <<>>
           /\ current = last.current
           /\ previous = last.previous

\* Every guard of the leaf's handler returned false while an ancestor declares
\* an unguarded handler for the same event
C8_Witness ==
    /\ LastStepKept
    /\ last.err = ErrNoTransitionCouldBeRun
    /\ Len(LastTransitions) >= 2
    /\ last.withHandler # Root
    /\ last.event \in DOMAIN config[parentStateNode(last.withHandler)].On

\* C9: a transition with a blank target runs no OnEntry and no OnExit action;
\* its own actions run in order, each at most once, and all of them when none
\* fails.
C9_BlankTargetRunsOnlyItsActions ==
    (LastStepKept /\ last.selected # 0 /\ last.blank) =>
        LET acts == LastTransitions[last.selected].Actions
        IN /\ \A k \in 1..Len(StepActions) :
                  /\ StepActions[k].phase = transitionActionActionType
                  /\ StepActions[k].index = k - 1
           /\ Len(StepActions) <= Len(acts)
           /\ last.err = NoErr => Len(StepActions) = Len(acts)

\* A blank-target transition ran its action on a leaf that declares OnEntry
\* and OnExit actions
C9_Witness ==
    /\ LastStepKept /\ last.selected # 0 /\ last.blank /\ last.err = NoErr
    /\ Len(StepActions) >= 1
    /\ last.withHandler = last.current
    /\ Len(config[last.current].OnExit) >= 1
    /\ Len(config[last.current].OnEntry) >= 1

\* C10: after a committed micro-step whose transition has a blank target,
\* current is the node it was before.
C10_BlankTargetKeepsCurrent ==
    (LastStepKept /\ last.selected # 0 /\ last.blank /\ last.err = NoErr
        /\ pc[last.thread] \in {"idle", "loop"}) => current = last.current

\* C11: once NewMachine has returned a machine, current is an atomic state
\* node after any sequence of Send calls, and so is every node Send returns.
C11_CurrentIsAnAtomicLeaf ==
    constructed = "machine" =>
        /\ isAtomic(config, current)
        /\ \A t \in Threads : ret[t].node # NilNode => isAtomic(config, ret[t].node)

\* C12: a micro-step that processes an event a Send action queued belongs to
\* the Send call whose action queued it and comes after the micro-step of that
\* action, which has been committed; the events still queued were all queued by
\* Send actions, none of them before the one processed.
C12_SelfQueuedEventWaitsForItsMicroStep ==
    (LastStepKept /\ last.origin.by = "action") =>
        /\ ~last.origin.stale
        /\ 1 <= last.origin.step
        /\ last.origin.step < steps[last.thread]
        /\ \A r \in 1..Len(StepTrace) : StepTrace[r].event = last.event
        /\ \A i \in 1..Len(origins) :
               /\ origins[i].by = "action"
               /\ ~origins[i].stale
               /\ last.origin.step <= origins[i].step

\* C13: when the last Send call returned an error, no event is left in the
\* queue for a later call to process.
C13_FailedSendDiscardsTheQueue ==
    \A t \in Threads :
        (pc[t] = "idle" /\ lock = NoThread /\ last.thread = t /\ ret[t].err # NoErr)
            => externalEvents = <<>>

\* C14: with locking enabled, at most one thread is inside the loop of Send,
\* and the micro-steps of a Send call follow one another without a micro-step
\* of another call in between.
C14_OneSendAtATime ==
    ~disableLocking =>
        /\ Cardinality({ t \in Threads : pc[t] # "idle" }) <= 1
        /\ \A t \in Threads : (pc[t] # "idle" /\ steps[t] >= 1) => last.thread = t

\* A thread is in the second micro-step of its Send call, which replaced the
\* state another thread's Send call had reached
C14_Witness ==
    /\ \E t, u \in Threads :
         /\ t # u
         /\ pc[t] = "assign" /\ steps[t] = 2
         /\ pc[u] = "idle" /\ steps[u] >= 1
         /\ ret[u].err = NoErr
         /\ atCall[t].current = ret[u].node
         /\ atCall[u].current # ret[u].node

\* C15: with locking enabled, a Current or Previous call reads its field while
\* no thread is inside Send: not during a micro-step, and not between the
\* assignments of previous and current.
C15_ReadersSeeNoHalfUpdate ==
    (~disableLocking /\ observed.fn \in {"Current", "Previous"}) =>
        \A t \in Threads : observed.at[t] = "idle"

\* A Current call returned before a Send call of another thread, which has now
\* assigned previous and not yet current
C15_Witness ==
    /\ observed.fn = "Current"
    /\ observed.value = current
    /\ \E t \in Threads : pc[t] = "assign" /\ stateNodeToEnter[t] # current
    /\ previous = current

\* No Send call has begun
NoSendYet == \A t \in Threads : atCall[t].current = NilNode /\ pc[t] = "idle"

\* The nodes from the root down to the leaf s
PathTo(s) == { SubSeq(s, 1, k) : k \in 0..Len(s) }

\* The number of entries of the trace that stand for the action of this index
\* in the OnEntry list of node n
EntryRuns(n, i) ==
    Len(SelectSeq(trace, LAMBDA r : r.phase = onEntryActionType /\ r.node = n /\ r.index = i))

\* C16: when NewMachine returns a machine, current is the leaf reached from
\* the root through Initial at every compound node, and before any Send call
\* every OnEntry action of every node from the root down to that leaf has run
\* exactly once, with InitialTransitionEventType, those of a parent before those
\* of its child, and nothing else has run.
C16_InitialTransitionEntersFromTheRoot ==
    (constructed = "machine" /\ NoSendYet) =>
        /\ isAtomic(config, current)
        /\ \A k \in 1..Len(current) :
               current[k] = config[SubSeq(current, 1, k - 1)].Initial
        /\ \A n \in PathTo(current) :
               \A i \in 0..(Len(config[n].OnEntry) - 1) : EntryRuns(n, i) = 1
        /\ \A k \in 1..Len(trace) :
               /\ trace[k].phase = onEntryActionType
               /\ trace[k].event = InitialTransitionEventType
               /\ trace[k].node \in PathTo(current)
        /\ \A j, k \in 1..Len(trace) :
               j < k => Len(trace[j].node) <= Len(trace[k].node)

\* NewMachine returned a machine whose initial leaf is two levels below the
\* root, each level with several OnEntry actions
C16_Witness ==
    /\ constructed = "machine" /\ NoSendYet
    /\ Len(current) = 2
    /\ \A n \in PathTo(current) : Len(config[n].OnEntry) >= 2
    /\ Len(trace) >= 6

\* The configuration is valid and an OnEntry action of a node from the root
\* down to the initial leaf returns an error
InitialEntryFails(cfg) ==
    /\ \E n \in DOMAIN cfg : \E i \in 1..Len(cfg[n].OnEntry) : cfg[n].OnEntry[i].fails
    /\ MachineValidate(cfg) = { NoErr }
    /\ \E n \in PathTo(resolveMostNestedInitialStateNode(cfg, Root)) :
           \E i \in 1..Len(cfg[n].OnEntry) : cfg[n].OnEntry[i].fails

\* C17: when an OnEntry action of the initial transition returns an error,
\* NewMachine returns nil and an error that unwraps to the action's error, and
\* the failing action is the last one that ran.
C17_FailedInitialEntryFailsNewMachine ==
    (constructed # "no" /\ InitialEntryFails(config)) =>
        /\ constructed = "nil"
        /\ current = NilNode
        /\ newErr.kind = "ErrAction"
        /\ newErr.type = onEntryActionType
        /\ Len(trace) >= 1
        /\ \A k \in 1..Len(trace) :
               /\ trace[k].phase = onEntryActionType
               /\ config[trace[k].node].OnEntry[trace[k].index + 1].fails <=> k = Len(trace)
        /\ ErrorsIs(newErr, UserErr(trace[Len(trace)].result))

\* An OnEntry action of c failed after those of the root had run, and those of
\* c.a did not run
C17_Witness ==
    /\ constructed = "nil"
    /\ newErr.kind = "ErrAction"
    /\ Len(trace) >= 3
    /\ Len(trace[Len(trace)].node) = 1
    /\ \A k \in 1..Len(trace) : Len(trace[k].node) < 2

\* The number of actions of the last micro-step that stand for the action of
\* this index in the OnExit or OnEntry list (phase) of node n
StepRuns(phase, n, i) ==
    Len(SelectSeq(StepActions, LAMBDA r : r.phase = phase /\ r.node = n /\ r.index = i))

\* The nodes of the branch of the leaf s that are deeper than depth
BranchBelow(s, depth) == { SubSeq(s, 1, k) : k \in (depth + 1)..Len(s) }

\* The last micro-step went from the leaf last.current to the leaf last.node
\* through a transition with a real target
LeafToLeaf ==
    /\ LastStepKept /\ last.selected # 0 /\ ~last.blank /\ last.node # NilNode
    /\ isAtomic(config, last.current) /\ isAtomic(config, last.node)

\* C18: a committed transition from the current leaf to a destination leaf
\* runs every OnExit action of the nodes of the current leaf's branch below the
\* least common compound ancestor, every OnEntry action of the nodes of the
\* destination's branch below it, each once, and no OnExit or OnEntry action of
\* any other node.
C18_CommonAncestorsAreLeftAlone ==
    (LeafToLeaf /\ last.err = NoErr) =>
        LET depth == CommonDepth(last.current, last.node)
            exited == BranchBelow(last.current, depth)
            entered == BranchBelow(last.node, depth)
        IN /\ \A n \in exited : \A i \in 0..(Len(config[n].OnExit) - 1) :
                  StepRuns(onExitActionType, n, i) = 1
           /\ \A n \in entered : \A i \in 0..(Len(config[n].OnEntry) - 1) :
                  StepRuns(onEntryActionType, n, i) = 1
           /\ \A k \in 1..Len(StepActions) :
                  /\ StepActions[k].phase = onExitActionType => StepActions[k].node \in exited
                  /\ StepActions[k].phase = onEntryActionType => StepActions[k].node \in entered

\* A transition between two leaves of the compound state c.b, below the
\* compound state c and the root, which all declare OnExit and OnEntry actions
C18_Witness ==
    /\ LeafToLeaf /\ last.err = NoErr
    /\ last.current # last.node
    /\ CommonDepth(last.current, last.node) = 2
    /\ \A n \in PathTo(last.current) : Len(config[n].OnExit) >= 1 /\ Len(config[n].OnEntry) >= 1
    /\ CountPhase(StepActions, onExitActionType) >= 1
    /\ CountPhase(StepActions, onEntryActionType) >= 1

\* C19: in a micro-step with a real target the OnExit actions of a node run
\* before those of its parent, the OnEntry actions of a node run before those
\* of its children, and the last OnEntry actions are those of the destination.
C19_ExitChildFirstEntryParentFirst ==
    LeafToLeaf =>
        /\ \A j, k \in 1..Len(StepActions) :
               (j < k /\ StepActions[j].phase = onExitActionType
                      /\ StepActions[k].phase = onExitActionType)
                   => Len(StepActions[j].node) >= Len(StepActions[k].node)
        /\ \A j, k \in 1..Len(StepActions) :
               (j < k /\ StepActions[j].phase = onEntryActionType
                      /\ StepActions[k].phase = onEntryActionType)
                   => Len(StepActions[j].node) <= Len(StepActions[k].node)
        /\ (last.err = NoErr /\ Len(config[last.node].OnEntry) >= 1)
               => StepActions[Len(StepActions)].node = last.node

\* A transition left two nested nodes and entered two nested nodes, each with
\* OnExit and OnEntry actions
C19_Witness ==
    /\ LeafToLeaf /\ last.err = NoErr
    /\ Len(last.current) = 2 /\ Len(last.node) = 2
    /\ CommonDepth(last.current, last.node) = 0
    /\ \A n \in BranchBelow(last.current, 0) : StepRuns(onExitActionType, n, 0) = 1
    /\ \A n \in BranchBelow(last.node, 0) : StepRuns(onEntryActionType, n, 0) = 1

\* The selectors are, one by one, the first keys of the path of node s
IsPathPrefix(stateSelectors, s) ==
    /\ Len(stateSelectors) <= Len(s)
    /\ \A i \in 1..Len(stateSelectors) : stateSelectors[i] = s[i]

\* C20: Matches returns false for a list of selectors that is not, segment by
\* segment, a prefix of the path of the node below the root.
C20_MatchesIsAnchoredOnSegments ==
    (matched.node # NilNode /\ ~IsPathPrefix(matched.stateSelectors, matched.node))
        => ~matched.result

\* C21: Matches returns true for the first k keys of the path of the node, for
\* every k from none to all of them.
C21_MatchesEveryPathPrefix ==
    (matched.node # NilNode /\ IsPathPrefix(matched.stateSelectors, matched.node))
        => matched.result

\* After a transition, Matches was given the first key only of the path of
\* the current leaf, two levels below the root
C21_Witness ==
    /\ matched.node = current
    /\ previous # NilNode /\ previous # current
    /\ Len(matched.node) = 2
    /\ Len(matched.stateSelectors) = 1
    /\ IsPathPrefix(matched.stateSelectors, matched.node)
    /\ matched.result

\* The transitions of the handlers of the configuration, each with the node
\* that declares it
HandlerTransitions(cfg) ==
    UNION { UNION { { <<n, transitions(cfg[n].On[e])[i]>> :
                          i \in 1..Len(transitions(cfg[n].On[e])) }
                  : e \in DOMAIN cfg[n].On }
          : n \in DOMAIN cfg }

\* The transition has a plain state name as target
IsPlain(tr) == ~isTargetBlank(tr) /\ tr.Target.kind = "state"

\* The child of the parent of node n that has this name
Sibling(n, name) == Append(parentStateNode(n), name)

\* Every handler is declared below the root and targets, by name, a child of
\* its node's parent, or nothing
PlainSiblingTargetsOnly(cfg) ==
    \A h \in HandlerTransitions(cfg) :
        \/ isTargetBlank(h[2])
        \/ h[1] # Root /\ IsPlain(h[2]) /\ Sibling(h[1], h[2].Target.name) \in DOMAIN cfg

\* The transition the last micro-step selected
LastTransition == LastTransitions[last.selected]

\* C22: a plain state name declared as target on a node below the root, at
\* any depth, resolves to the child of that node's parent that has this name:
\* NewMachine accepts the configuration, and Send enters the most nested
\* initial leaf of that child and makes it current.
C22_PlainTargetIsTheSibling ==
    /\ (constructed # "no" /\ PlainSiblingTargetsOnly(config) /\ ~HasBadInitial(config)) =>
           /\ constructed # "panic"
           /\ ~ErrorsIs(newErr, ErrInvalidTransitionNotImplemented)
    /\ (/\ LastStepKept /\ last.selected # 0 /\ last.withHandler # Root
        /\ IsPlain(LastTransition)
        /\ Sibling(last.withHandler, LastTransition.Target.name) \in DOMAIN config) =>
           LET leaf == resolveMostNestedInitialStateNode(
                           config, Sibling(last.withHandler, LastTransition.Target.name))
           IN /\ last.err.kind # "errorString"
              /\ last.node = leaf
              /\ (last.err = NoErr /\ pc[last.thread] \in {"idle", "loop"}) => current = leaf

\* C23: for a given configuration and sequence of Send calls the outcome of
\* NewMachine, and of every micro-step, is uniquely determined: the order in
\* which the maps are ranged over does not change it.
C23_OutcomesAreDetermined ==
    /\ constructed = "no" =>
           Cardinality({ MachineInit(config, err).err : err \in MachineValidate(config) }) = 1
    /\ \A t \in Threads :
           (pc[t] = "loop" /\ Len(externalEvents) > 0) =>
               LET polled == Poll(externalEvents)
               IN Cardinality({ Returned(o.node, o.err) :
                                  o \in handleExternalEvent(config, current, polled.event,
                                                            steps[t] + 1, polled.events, trace) }) = 1

\* C24: when the micro-step of the k-th event of a Send call fails, k >= 2,
\* the k-1 micro-steps before it stay committed: current is the node the
\* (k-1)-th made current, previous the node that was current before it, and
\* Send returns current with the error.
C24_EarlierMicroStepsStayCommitted ==
    \A t \in Threads :
        (/\ pc[t] = "idle" /\ lock = NoThread /\ last.thread = t
         /\ steps[t] >= 2 /\ ret[t].err # NoErr) =>
            /\ Len(committed) = steps[t] - 1
            /\ current = committed[steps[t] - 1]
            /\ previous = IF steps[t] >= 3 THEN committed[steps[t] - 2] ELSE atCall[t].current
            /\ ret[t] = Returned(current, last.err)

\* The second micro-step of a Send call failed in an action after the first
\* had moved the machine to another leaf
C24_Witness ==
    \E t \in Threads :
        /\ pc[t] = "idle" /\ last.thread = t /\ steps[t] = 2
        /\ ret[t].err.kind = "ErrAction"
        /\ current # atCall[t].current
        /\ previous = atCall[t].current
        /\ ~last.origin.stale

\* The last Send call to return is one of thread t
ReturnedLast(t) ==
    /\ atCall[t].current # NilNode
    /\ pc[t] = "idle" /\ lock = NoThread
    /\ last.thread \in { t, NoThread }

\* C25: when Send has returned, the node it returned is current, whether it
\* returned an error or not, and when it returned no error the queue is empty.
C25_SendReturnsCurrentOnceTheQueueIsEmpty ==
    \A t \in Threads :
        ReturnedLast(t) =>
            /\ ret[t].node = current
            /\ ret[t].err = NoErr => externalEvents = <<>>

\* Send returned no error after two micro-steps, the second for an event the
\* first one queued, and the node it returned is not the one it started from
C25_Witness ==
    \E t \in Threads :
        /\ ReturnedLast(t)
        /\ ret[t].err = NoErr
        /\ steps[t] = 2
        /\ last.origin.by = "action"
        /\ ret[t].node # atCall[t].current
        /\ Len(committed) = 2

RECURSIVE IsSinglePath(_)
IsSinglePath(t) ==
    /\ t.kind = "compound"
    /\ Cardinality(t.entries) = 1
    /\ \A e \in t.entries : e[2].kind = "state" \/ IsSinglePath(e[2])

\* The path P1, ..., Pn a single-path compound target names
RECURSIVE PathOf(_)
PathOf(t) ==
    IF t.kind = "state" THEN <<t.name>>
    ELSE LET e == CHOOSE e \in t.entries : TRUE IN <<e[1]>> \o PathOf(e[2])

\* C27: a CompoundTarget that names the path P1, ..., Pn, declared on a node N
\* below the root, resolves to the node reached from the parent of N through
\* the children P1, ..., Pn, then to the most nested initial leaf of that
\* node; a micro-step that succeeds makes that leaf the current node.
C27_CompoundTargetIsResolvedFromTheParent ==
    (/\ LastStepKept /\ last.selected # 0 /\ last.withHandler # Root
     /\ ~isTargetBlank(LastTransition)
     /\ IsSinglePath(LastTransition.Target)
     /\ last.err = NoErr) =>
        LET leaf == resolveMostNestedInitialStateNode(
                        config, parentStateNode(last.withHandler) \o PathOf(LastTransition.Target))
        IN /\ last.node = leaf
           /\ pc[last.thread] \in {"idle", "loop"} => current = leaf

\* Some handler declared on a node N below the root targets by name a state
\* that is no child of the parent of N, while a child or deeper descendant of
\* N or of one of its siblings has that name
HasOffLevelPlainTarget(cfg) ==
    \E h \in HandlerTransitions(cfg) :
        /\ h[1] # Root /\ IsPlain(h[2])
        /\ Sibling(h[1], h[2].Target.name) \notin DOMAIN cfg
        /\ \E n \in DOMAIN cfg :
               /\ Len(n) > Len(h[1])
               /\ SubSeq(n, 1, Len(h[1]) - 1) = parentStateNode(h[1])
               /\ n[Len(n)] = h[2].Target.name

\* C28: a plain state name declared as target on a node N never resolves to a
\* state that is not at the nesting level of N: a micro-step that resolves it
\* enters the most nested initial leaf of a child of the parent of N, and
\* when the name is only that of a child or deeper descendant of N or of one
\* of its siblings, NewMachine fails with an error that matches
\* ErrInvalidTransitionNotImplemented.
C28_PlainTargetStaysAtItsLevel ==
    /\ (constructed # "no" /\ HasOffLevelPlainTarget(config)) =>
           /\ constructed = "nil"
           /\ ErrorsIs(newErr, ErrInvalidTransitionNotImplemented)
    /\ (/\ LastStepKept /\ last.selected # 0 /\ last.withHandler # Root
        /\ IsPlain(LastTransition) /\ last.err = NoErr) =>
           /\ Len(last.node) >= Len(last.withHandler)
           /\ SubSeq(last.node, 1, Len(last.withHandler)) \in
                  States(config, parentStateNode(last.withHandler))
           /\ last.node = resolveMostNestedInitialStateNode(
                              config, SubSeq(last.node, 1, Len(last.withHandler)))

\* C29: Previous() is nil from construction until the first committed
\* micro-step; after a committed micro-step previous is the node that was
\* current just before that micro-step; a micro-step that fails leaves
\* previous as it was, so a Send that fails on its first micro-step does not
\* change it.
C29_PreviousIsTheNodeBeforeTheLastCommit ==
    /\ (constructed = "machine" /\ NoSendYet) =>
           /\ previous = NilNode
           /\ observed.fn = "Previous" => observed.value = NilNode
    /\ (LastStepKept /\ pc[last.thread] \in {"idle", "loop"}) =>
           previous = IF last.err = NoErr THEN last.current ELSE last.previous
    /\ \A t \in Threads :
           (/\ last.thread = t /\ pc[t] = "idle" /\ steps[t] = 1 /\ last.err # NoErr) =>
               /\ previous = atCall[t].previous
               /\ current = atCall[t].current

\* Previous() returned the node that the second committed micro-step of a
\* Send call left, a node other than nil and other than the current one
C29_Witness ==
    /\ LastStepKept /\ pc[last.thread] = "idle" /\ last.err = NoErr
    /\ Len(committed) >= 2
    /\ last.previous # NilNode
    /\ previous # current
    /\ observed.fn = "Previous" /\ observed.value = previous

\* The runs of the actions of one list, OnEntry or OnExit, of one node during
\* one micro-step (or the construction) follow the order of the list
RunInDeclaredOrder(phase) ==
    \A j, k \in 1..Len(trace) :
        (/\ j < k
         /\ trace[j].phase = phase /\ trace[k].phase = phase
         /\ trace[j].step = trace[k].step
         /\ trace[j].node = trace[k].node) => trace[j].index < trace[k].index

\* C30: the OnEntry and OnExit lists are ordered: when a node that declares
\* several OnEntry actions is entered, at construction or by a transition,
\* its OnEntry actions run in their declared order, and so do its OnExit
\* actions when it is exited.
C30_ActionListsRunInDeclaredOrder ==
    /\ RunInDeclaredOrder(onEntryActionType)
    /\ RunInDeclaredOrder(onExitActionType)

\* The actions of the selected transition that the last micro-step ran, in
\* the order it ran them
TransitionRuns == SelectSeq(StepActions, LAMBDA r : r.phase = transitionActionActionType)

\* C31: when a transition is selected and no action fails, every action of
\* its Actions list runs exactly once, in declared order; when the action at
\* index i fails, the actions at the indices 0..i have run once each, in
\* declared order, and neither the actions at greater indices nor any OnEntry
\* action is run.
C31_TransitionActionsRunOnceInOrder ==
    (LastStepKept /\ last.selected # 0) =>
        /\ last.err = NoErr =>
               /\ Len(TransitionRuns) = Len(LastTransition.Actions)
               /\ \A k \in 1..Len(TransitionRuns) : TransitionRuns[k].index = k - 1
        /\ (last.err.kind = "ErrAction" /\ last.err.type = transitionActionActionType) =>
               /\ Len(TransitionRuns) = last.err.id + 1
               /\ \A k \in 1..Len(TransitionRuns) : TransitionRuns[k].index = k - 1
               /\ LastTransition.Actions[last.err.id + 1].fails
               /\ CountPhase(StepActions, onEntryActionType) = 0

\* The third of the four actions of a transition failed, after the OnExit
\* actions of the leaf had run
C31_Witness ==
    /\ LastStepKept /\ last.selected # 0
    /\ last.err.kind = "ErrAction" /\ last.err.type = transitionActionActionType
    /\ last.err.id = 2
    /\ Len(LastTransition.Actions) = 4
    /\ Len(TransitionRuns) = 3
    /\ CountPhase(StepActions, onExitActionType) >= 1

\* The action the last micro-step ran last
LastRun == StepActions[Len(StepActions)]

\* C32: the error Send returns for a failing action is an ErrAction whose Type
\* is onExit, transitionAction or onEntry according to the phase of the
\* failing action, and whose ID is the index of that action in the list that
\* declares it: the OnExit or OnEntry list of its node, or the Actions of the
\* transition.
C32_ErrActionNamesPhaseAndIndex ==
    \A t \in Threads :
        (/\ last.thread = t /\ pc[t] = "idle" /\ steps[t] >= 1
         /\ ret[t].err.kind = "ErrAction") =>
            /\ Len(StepActions) >= 1
            /\ Declared(LastRun).fails
            /\ ret[t].err.type = LastRun.phase
            /\ ret[t].err.id = LastRun.index
            /\ ret[t].err.cause = Declared(LastRun).name

\* The path names the same state name at two nesting levels
RepeatsAName(p) == \E i, j \in 1..Len(p) : i < j /\ p[i] = p[j]

\* C33: state names need only be unique among siblings: a CompoundTarget path
\* in which the same name occurs at two nesting levels keeps every segment,
\* in order, and resolves to the node at exactly that path: NewMachine accepts
\* it when that node exists, and Send enters the most nested initial leaf of
\* that node.
C33_RepeatedNamesKeepTheirSegments ==
    /\ \A h \in HandlerTransitions(config) :
           (~isTargetBlank(h[2]) /\ IsSinglePath(h[2].Target)) =>
               /\ target(h[2].Target) = { PathOf(h[2].Target) }
               /\ (/\ constructed # "no" /\ Len(h[1]) = 1
                   /\ RepeatsAName(PathOf(h[2].Target))
                   /\ PathOf(h[2].Target) \in DOMAIN config) => constructed = "machine"
    /\ (/\ LastStepKept /\ last.selected # 0 /\ Len(last.withHandler) = 1
        /\ ~isTargetBlank(LastTransition) /\ IsSinglePath(LastTransition.Target)
        /\ RepeatsAName(PathOf(LastTransition.Target))
        /\ PathOf(LastTransition.Target) \in DOMAIN config) =>
           /\ last.err = NoErr
           /\ last.node = resolveMostNestedInitialStateNode(config, PathOf(LastTransition.Target))

\* C34: after construction Value() of every node is the root id, "(machine)"
\* when the machine has no name, followed by the keys on the path from the
\* root to the node, joined by "."; distinct nodes have distinct ids; and no
\* Send changes the tree, hence no id, parent link or child.
C34_IdsArePathsAndDistinct ==
    /\ [](constructed = "machine" =>
              /\ \A n \in DOMAIN config :
                     Value(n) = joinStatesIDs(<<RootPlaceholder>> \o n)
              /\ \A n, m \in DOMAIN config : n # m => Value(n) # Value(m))
    /\ [][constructed = "machine" => config' = config]_vars

\* C35: every guard and action called while an event is processed is given the
\* Context of the root configuration and the event being processed: the
\* argument of Send in the first micro-step of a call, the event an action of
\* the same call queued in every later micro-step, and
\* InitialTransitionEventType during construction.
C35_GuardsAndActionsGetContextAndEvent ==
    /\ \A k \in 1..Len(trace) :
           /\ trace[k].context = Root
           /\ trace[k].step = 0 => trace[k].event = InitialTransitionEventType
    /\ LastStepKept =>
           /\ \A k \in 1..Len(StepTrace) : StepTrace[k].event = last.event
           /\ steps[last.thread] = 1 =>
                  last.event = arg[last.thread] /\ last.origin.by = "Send"
           /\ steps[last.thread] >= 2 =>
                  /\ last.origin.by = "action"
                  /\ 1 <= last.origin.step /\ last.origin.step < steps[last.thread]

\* The last micro-step selected a transition whose target, not blank,
\* resolved to the leaf that was current
SelfTransition ==
    /\ LastStepKept /\ last.selected # 0 /\ ~last.blank
    /\ last.err = NoErr
    /\ last.node = last.current

\* C36: a transition with a target that is not blank and resolves to the
\* current leaf itself is an external transition: the OnExit actions of the
\* leaf run, then the actions of the transition, then the OnEntry actions of
\* the leaf; its parent is neither exited nor entered; and afterwards
\* Previous() and Current() are the same node.
C36_SelfTargetExitsAndEntersTheLeaf ==
    SelfTransition =>
        /\ \A i \in 0..(Len(config[last.current].OnExit) - 1) :
               StepRuns(onExitActionType, last.current, i) = 1
        /\ \A i \in 0..(Len(LastTransition.Actions) - 1) :
               StepRuns(transitionActionActionType, NilNode, i) = 1
        /\ \A i \in 0..(Len(config[last.current].OnEntry) - 1) :
               StepRuns(onEntryActionType, last.current, i) = 1
        /\ \A j, k \in 1..Len(StepActions) :
               j < k => PhaseRank(StepActions[j].phase) <= PhaseRank(StepActions[k].phase)
        /\ \A k \in 1..Len(StepActions) :
               StepActions[k].phase \in {onExitActionType, onEntryActionType}
                   => StepActions[k].node = last.current
        /\ pc[last.thread] \in {"idle", "loop"} =>
               current = last.current /\ previous = current

\* Such a transition of a leaf two levels below the root, whose parent
\* declares OnExit and OnEntry actions, has been committed
C36_Witness ==
    /\ SelfTransition /\ pc[last.thread] = "idle"
    /\ Len(last.current) = 2
    /\ Len(config[parentStateNode(last.current)].OnExit) >= 1
    /\ Len(config[parentStateNode(last.current)].OnEntry) >= 1
    /\ CountPhase(StepActions, onExitActionType) = 1
    /\ CountPhase(StepActions, onEntryActionType) = 1
    /\ previous = current

\* C37: when NewMachine returns a machine the events queue is empty: an event
\* that a Send action of an OnEntry list queued during the initial transition
\* is not left pending, and no micro-step of a later Send call processes it in
\* place of the argument of that call.
C37_QueueIsEmptyAfterNewMachine ==
    /\ (constructed = "machine" /\ NoSendYet) => externalEvents = <<>>
    /\ LastStepKept => ~(last.origin.by = "action" /\ last.origin.step = 0)

\* C38: with locking enabled every Send, Current and Previous call returns,
\* under fair scheduling and when the guards and actions return and the events
\* the actions queue are finitely many; Send releases the lock on every return
\* path (success, no handler, no transition that can run, action error), so
\* that a Send that failed never blocks a later call.
C38_CallsReturnAndSendUnlocks ==
    /\ [](\A t \in Threads : pc[t] \in {"idle"} \cup Methods => lock # t)
    /\ \A t \in Threads : (pc[t] # "idle") ~> (pc[t] = "idle")

\* A thread holds the lock for its Send call right after the Send call of the
\* other thread returned an error
C38_Witness ==
    \E t, u \in Threads :
        /\ t # u
        /\ last.thread = t /\ pc[t] = "idle" /\ ret[t].err # NoErr
        /\ lock = u /\ pc[u] = "loop" /\ steps[u] = 0

\* The last micro-step ran a function that calls a method of the machine
RanACall ==
    /\ LastStepKept
    /\ \E k \in 1..Len(StepActions) : Declared(StepActions[k]).kind = "actionFnCalling"

\* C39: the machine is re-entered only through its queue.  An action that
\* queues an event with the Send action never blocks: the micro-step goes on
\* with the next action.  A function that calls Send, Current or Previous on
\* its own machine blocks on the lock its own Send call holds: nothing runs
\* after it, the thread keeps the lock and never returns, and no call of
\* another thread gets the lock or returns from then on.
C39_OnlyTheQueueReenters ==
    /\ [](\A t \in Threads :
             /\ pc[t] = "blocked" <=> (last.thread = t /\ RanACall)
             /\ pc[t] = "blocked" =>
                    /\ lock = t
                    /\ Declared(StepActions[Len(StepActions)]).kind = "actionFnCalling"
                    /\ \A u \in Threads \ {t} : pc[u] \in {"idle"} \cup Methods
             /\ (last.thread = t /\ LastStepKept /\ ~RanACall) =>
                    \A k \in 1..Len(StepActions) :
                        (Declared(StepActions[k]).kind = "sendActionEvent"
                             /\ k < Len(LastTransition.Actions))
                            => Len(StepActions) > k)
    /\ [][\A t \in Threads :
              pc[t] = "blocked" =>
                  /\ pc'[t] = "blocked" /\ lock' = t
                  /\ \A u \in Threads : pc[u] \in Methods => pc'[u] = pc[u]]_vars

\* A thread is blocked in an action of its Send call, which processed an event
\* that a Send action had queued, while the other thread waits in a call
C39_Witness ==
    \E t, u \in Threads :
        /\ t # u
        /\ pc[t] = "blocked" /\ lock = t
        /\ steps[t] = 2 /\ last.origin.by = "action"
        /\ pc[u] \in Methods

\* C40: the events queue is FIFO: after any sequence of Add and Poll calls the
\* successful Polls have returned, in the order they were added and once
\* each, the events added first, and the queue holds the others in that
\* order; Poll on an empty queue returns (nil, false) and leaves the queue
\* empty.
C40_QueueIsFIFO ==
    /\ queueLog.added = queueLog.polled \o externalEvents
    /\ (queueLog.last.called /\ ~queueLog.last.ok) =>
           /\ queueLog.last.event = ""
           /\ externalEvents = <<>>
           /\ queueLog.polled = queueLog.added
    /\ (queueLog.last.called /\ queueLog.last.ok) =>
           /\ queueLog.polled # <<>>
           /\ queueLog.last.event = queueLog.polled[Len(queueLog.polled)]

\* Three events were polled, two of them while later ones were queued, then
\* Poll found the queue empty
C40_Witness ==
    /\ Len(queueLog.polled) = 3
    /\ queueLog.polled[1] # queueLog.polled[2]
    /\ queueLog.polled[2] # queueLog.polled[3]
    /\ queueLog.last.called
    /\ ~queueLog.last.ok
    /\ externalEvents = <<>>

====
